---- MODULE Spec2Model ----
(***************************************************************************)
(* Resilient multi-provider speaking-evaluation pipeline.                  *)
(*                                                                         *)
(* Three state machines share this module:                                 *)
(*   Spec / FairSpec / SpecRLS : the asynchronous job pipeline of          *)
(*       supabase/functions/evaluate-speaking-async/index.ts (second       *)
(*       generation, lines 500-947): serve + processInBackground +         *)
(*       runEvaluation, the job table and its row-level update policy.     *)
(*   SpecInline : the inline-audio pipeline evaluate-ai-speaking (the      *)
(*       TypeScript that follows the DDL in migration 20260113103344).     *)
(*   SpecClassify : the error classifiers, applied to bounded inputs.      *)
(***************************************************************************)
EXTENDS Integers, Sequences, FiniteSets, TLC

VARIABLES
    \* ---- reading the credentials
    readFailed,     \* a read of the user secret or of the pool keys failed
    \* ---- error classifier harness
    cStatus,        \* HTTP status handed to the classifiers
    cBody,          \* response body: a set of phrase occurrences
    cOut,           \* the four classifications, or NoOut before the call
    \* ---- credential store (table api_keys) and the caller's user_secrets row
    pool,           \* pool key id -> [is_active, flash_quota_exhausted, error_count]
    userKey,        \* "none" | "ok" | "undecryptable"
    \* ---- job store: the row of speaking_evaluation_jobs created by this request
    status,         \* "none" (no row) | "pending" | "processing" | "completed" | "failed"
    retry_count,
    max_retries,
    last_error,     \* "null" or the error text
    result_id,      \* "null" or the id of a row of ai_practice_results
    resultRows,     \* ids of the rows of ai_practice_results inserted for the job
    \* ---- the request handler (serve) of evaluate-speaking-async
    req,            \* "unauth" | "bad" | "ok": the incoming request
    servePc,        \* "start" | "inserted" | "done"
    jobError,       \* the error of the job insert
    resp,           \* "none" or the HTTP status of the response
    \* ---- the background task (processInBackground / runEvaluation)
    workerPc,
    job,            \* the job row as read by runEvaluation (retry_count, max_retries)
    thrown,         \* "none" or the message of the error thrown by runEvaluation
    keyQueue,       \* sequence of key ids; UserKeyId is the user's own key (id null)
    ki, mi, attempt,\* candidate index, model index, attempt of the retry loop
    result,         \* "null" | "ok": the parsed evaluation
    resultRow,      \* "null" or the id returned by the result insert
    inFlight,       \* provider calls issued and not yet answered
    providerCalled, \* whether a provider call was issued for the job
    \* ---- history of the job row
    terminalWrites, \* terminal statuses written to the row so far
    \* ---- the request handler (serve) of evaluate-ai-speaking
    inlinePc,
    audioData,      \* segment -> length of the base64 payload submitted for it
    audioUrls,      \* segments uploaded to the blob store
    contents,       \* segment -> what buildGeminiContents put in the prompt for it
    activePoolKeys, \* the pool keys loaded at the start of the request
    usingUserKey,
    currentPoolKeyIndex,
    phase, rot,     \* which call of callGemini is running, and the rotation index i
    poolKeyId,      \* the poolKeyId argument of callGemini (UserKeyId: undefined)
    modelIndex,     \* position in GEMINI_MODELS_FALLBACK_ORDER
    evaluationRaw,  \* "null" | "ok"
    lastError,
    callResult,     \* the value callGemini returned
    \* ---- the provider, and the history of the run
    provider,       \* how the provider answers: "any", or a scenario
    pipeline,       \* the edge function serving the request: "async" | "full" | "part"
    userKeyFailed,  \* evaluate-ai-speaking-part: the user's key hit quota / rate limit
    attempted,      \* the credentials a provider call was made with so far
    \* ---- concurrent requests writing to the credential store
    writers,        \* writer -> [pc, op, key, read, calls]
    flagWritten,    \* keys for which a markKeyQuotaExhausted write has completed
    deactivated,    \* keys for which a deactivating write has completed
    \* ---- the shaping of a parsed provider response into a result
    raw,            \* the parsed JSON object (evaluationRaw / result)
    shaped,         \* [by, value]: the result a pipeline made of it, or NotShaped
    \* ---- the parsing of the provider's text
    canonical,      \* the tokens of the serialized result object
    responseText,   \* the tokens of the text the provider sent
    parsed,         \* [by, value]: what a parser made of the text, or NotParsed
    \* ---- the transcript repair pass (retryTranscriptionForNoSpeech)
    transcriptsMap, \* segment -> transcript, NoEntry for a key the map lacks
    transcriptsBefore, \* the map as it was handed to the pass
    clips,          \* segment -> length of the base64 of its audio
    durations,      \* segment -> duration in tenths of a second, or NoDuration
    limitedKeys,    \* the segments sent to the repair call, in order
    repairPc,       \* "idle" | "select" | "call" | "await" | "done"
    repairModel,    \* position in modelsToTry
    \* ---- the client's status hook (useSpeakingEvaluationRealtime)
    hookKind,       \* "none" | "realtimeOnly" (src/hooks) | "polling" (with fallback polling)
    jobStatus,      \* the status the hook reports, "null" before the first update
    hasCompletedRef, \* hasCompletedRef.current
    onCompleteCalls, \* invocations of onComplete so far
    onFailedCalls,  \* invocations of onFailed so far
    events,         \* payloads of the realtime change events on their way to the hook, in order
    pollPc,         \* "idle" | "query" | "handle" | "timer" | "stopped"
    polled          \* the row the select of the poll returned, or NoJob

classifyVars == <<cStatus, cBody, cOut>>

storeVars == <<pool, userKey>>

jobVars == <<status, retry_count, max_retries, last_error, result_id, resultRows>>

serveVars == <<req, servePc, jobError, resp>>

workerVars == <<workerPc, job, thrown, keyQueue, ki, mi, attempt,
                result, resultRow, inFlight, providerCalled>>

inlineVars == <<inlinePc, audioData, audioUrls, contents, activePoolKeys, usingUserKey,
                currentPoolKeyIndex, phase, rot, poolKeyId, modelIndex, evaluationRaw,
                lastError, callResult>>

runVars == <<provider, pipeline, attempted>>

partVars == <<userKeyFailed>>

writerVars == <<writers, flagWritten, deactivated>>

shapeVars == <<raw, shaped>>

parseVars == <<canonical, responseText, parsed>>

readVars == <<readFailed>>

hookVars == <<hookKind, jobStatus, hasCompletedRef, onCompleteCalls, onFailedCalls,
              events, pollPc, polled>>

repairVars == <<transcriptsMap, transcriptsBefore, clips, durations, limitedKeys,
                repairPc, repairModel>>

vars == <<readFailed, cStatus, cBody, cOut, pool, userKey,
          status, retry_count, max_retries, last_error, result_id, resultRows,
          req, servePc, jobError, resp,
          workerPc, job, thrown, keyQueue, ki, mi, attempt,
          result, resultRow, inFlight, providerCalled,
          terminalWrites,
          inlinePc, audioData, audioUrls, contents, activePoolKeys, usingUserKey,
          currentPoolKeyIndex, phase, rot, poolKeyId, modelIndex, evaluationRaw,
          lastError, callResult, provider, pipeline, userKeyFailed, attempted,
          writers, flagWritten, deactivated, raw, shaped,
          canonical, responseText, parsed,
          transcriptsMap, transcriptsBefore, clips, durations, limitedKeys,
          repairPc, repairModel,
          hookKind, jobStatus, hasCompletedRef, onCompleteCalls, onFailedCalls,
          events, pollPc, polled>>

(***************************************************************************)
(* Error classification                                                    *)
(***************************************************************************)

\* A body text is modelled by the phrases that occur in it; each occurrence
\* is spelled in lower case or in upper case. String.includes(w) on the
\* lower-cased text is membership of w in ToLower(body).
Phrases ==
    {"quota", "resource_exhausted", "rate limit", "too many requests",
     "api_key", "api key", "overloaded", "unavailable", "billing"}

Cases == {"lower", "upper"}

Occurrences == [phrase : Phrases, case : Cases]

\* Largest number of phrase occurrences in an enumerated body.
MaxBodyPhrases == 2

Bodies == {b \in SUBSET Occurrences : Cardinality(b) <= MaxBodyPhrases}

\* Non-2xx statuses the provider answers with.
ErrorStatuses == {400, 403, 404, 429, 500, 503, 504}

\* errorText.toLowerCase()
ToLower(body) == {[phrase |-> o.phrase, case |-> "lower"] : o \in body}

\* lower.includes(w)
Includes(lower, w) == [phrase |-> w, case |-> "lower"] \in lower

\* evaluate-speaking-async/index.ts, first generation.
classifyGeminiError_async(httpStatus, errorText) ==
    LET lower == ToLower(errorText) IN
    IF httpStatus = 429 \/ Includes(lower, "quota") \/ Includes(lower, "resource_exhausted")
    THEN [isQuota |-> TRUE, isRateLimit |-> FALSE, isUnavailable |-> FALSE]
    ELSE IF Includes(lower, "rate limit") \/ Includes(lower, "too many requests")
    THEN [isQuota |-> FALSE, isRateLimit |-> TRUE, isUnavailable |-> FALSE]
    ELSE IF httpStatus = 503 \/ Includes(lower, "overloaded") \/ Includes(lower, "unavailable")
    THEN [isQuota |-> FALSE, isRateLimit |-> FALSE, isUnavailable |-> TRUE]
    ELSE [isQuota |-> FALSE, isRateLimit |-> FALSE, isUnavailable |-> FALSE]

ErrorInfo(code, q, r, k) ==
    [code |-> code, isQuota |-> q, isRateLimit |-> r, isInvalidKey |-> k]

\* The rate-limit test placed before the quota test.
classifyGeminiError_rateFirst(httpStatus, errorText) ==
    LET lower == ToLower(errorText) IN
    IF Includes(lower, "rate limit") \/ Includes(lower, "too many requests")
    THEN ErrorInfo("RATE_LIMITED", FALSE, TRUE, FALSE)
    ELSE IF httpStatus = 429 \/ Includes(lower, "quota") \/ Includes(lower, "resource_exhausted")
    THEN ErrorInfo("QUOTA_EXCEEDED", TRUE, FALSE, FALSE)
    ELSE IF httpStatus = 400 /\ (Includes(lower, "api_key") \/ Includes(lower, "api key"))
    THEN ErrorInfo("INVALID_API_KEY", FALSE, FALSE, TRUE)
    ELSE IF httpStatus = 403
    THEN ErrorInfo("PERMISSION_DENIED", FALSE, FALSE, FALSE)
    ELSE IF httpStatus = 503
    THEN ErrorInfo("SERVICE_UNAVAILABLE", FALSE, FALSE, FALSE)
    ELSE ErrorInfo("UNKNOWN_ERROR", FALSE, FALSE, FALSE)

\* evaluate-ai-speaking (the full-test inline pipeline).
classifyGeminiError(httpStatus, errorText) ==
    LET lower == ToLower(errorText) IN
    IF httpStatus = 429 \/ Includes(lower, "quota") \/ Includes(lower, "resource_exhausted")
    THEN ErrorInfo("QUOTA_EXCEEDED", TRUE, FALSE, FALSE)
    ELSE IF Includes(lower, "rate limit") \/ Includes(lower, "too many requests")
    THEN ErrorInfo("RATE_LIMITED", FALSE, TRUE, FALSE)
    ELSE IF httpStatus = 400 /\ (Includes(lower, "api_key") \/ Includes(lower, "api key"))
    THEN ErrorInfo("INVALID_API_KEY", FALSE, FALSE, TRUE)
    ELSE IF httpStatus = 403
    THEN ErrorInfo("PERMISSION_DENIED", FALSE, FALSE, FALSE)
    ELSE IF httpStatus = 503
    THEN ErrorInfo("SERVICE_UNAVAILABLE", FALSE, FALSE, FALSE)
    ELSE ErrorInfo("UNKNOWN_ERROR", FALSE, FALSE, FALSE)

\* evaluate-ai-speaking-part (the single-part pipeline).
classifyGeminiError_part(httpStatus, errorText) ==
    LET lower == ToLower(errorText) IN
    IF httpStatus = 429 \/ Includes(lower, "quota") \/ Includes(lower, "resource_exhausted")
    THEN ErrorInfo("QUOTA_EXCEEDED", TRUE, FALSE, FALSE)
    ELSE IF Includes(lower, "rate limit") \/ Includes(lower, "too many requests")
    THEN ErrorInfo("RATE_LIMITED", FALSE, TRUE, FALSE)
    ELSE IF httpStatus = 400 /\ (Includes(lower, "api_key") \/ Includes(lower, "api key"))
    THEN ErrorInfo("INVALID_API_KEY", FALSE, FALSE, TRUE)
    ELSE IF httpStatus = 403
    THEN ErrorInfo("PERMISSION_DENIED", FALSE, FALSE, FALSE)
    ELSE IF httpStatus = 503
    THEN ErrorInfo("SERVICE_UNAVAILABLE", FALSE, FALSE, FALSE)
    ELSE ErrorInfo("GEMINI_ERROR", FALSE, FALSE, FALSE)

\* The inline classification of runEvaluation (second-generation async job).
classifyInline(httpStatus, errText) ==
    LET errLower == ToLower(errText) IN
    [isQuota     |-> (httpStatus = 429 \/ Includes(errLower, "quota")),
     isRetryable |-> (httpStatus = 429 \/ httpStatus = 503 \/ httpStatus = 504),
     isNotFound  |-> (httpStatus = 404)]


(***************************************************************************)
(* Credential store                                                        *)
(***************************************************************************)

\* Number of keys in the shared pool (table api_keys).
NumPoolKeys == 2

PoolKeys == 1 .. NumPoolKeys

\* The queue entry of the user's own key: { id: null, isUser: true }.
UserKeyId == 0

KeyFresh == [is_active |-> TRUE, flash_quota_exhausted |-> FALSE, error_count |-> 0]

KeyExhausted == [is_active |-> TRUE, flash_quota_exhausted |-> TRUE, error_count |-> 1]

KeyInactive == [is_active |-> FALSE, flash_quota_exhausted |-> FALSE, error_count |-> 1]

KeyStates == {KeyFresh, KeyExhausted, KeyInactive}

\* getActiveGeminiKeysForModel(client, 'flash') of _shared/apiKeyQuotaUtils.ts:
\* the active keys not flagged quota-exhausted for the flash family.
ActiveGeminiKeysForModel(p) ==
    {k \in DOMAIN p : p[k].is_active /\ ~p[k].flash_quota_exhausted}

\* markKeyQuotaExhausted(client, keyId, 'flash') of _shared/apiKeyQuotaUtils.ts:
\* persists the exhaustion flag of the key for the flash family.
markKeyQuotaExhausted(p, keyId) ==
    [p EXCEPT ![keyId].flash_quota_exhausted = TRUE]

\* All orders in which the store may return a set of keys.
Orderings(S) ==
    {q \in [1 .. Cardinality(S) -> S] : \A i, j \in 1 .. Cardinality(S) : i # j => q[i] # q[j]}

(***************************************************************************)
(* The asynchronous job: serve, processInBackground, runEvaluation         *)
(***************************************************************************)

\* GEMINI_MODELS has three entries.
NumModels == 3

\* RETRY_CONFIG.maxRetries
MaxRetriesPerCall == 5

\* Column defaults of speaking_evaluation_jobs.
DefaultRetryCount == 0

DefaultMaxRetries == 5

\* The fallback of (max_retries || 5) in runEvaluation.
FallbackMaxRetries == 5

\* Largest number of recorded segments (file paths) in a request.
NumSegments == 2

Terminal == {"completed", "failed"}

\* JavaScript's x || d on a number: 0 is falsy.
JsOr(x, d) == IF x = 0 THEN d ELSE x

\* const newRetryCount = (retry_count || 0) + 1
NewRetryCount(rc) == JsOr(rc, 0) + 1

\* if (newRetryCount < (max_retries || 5))
ShouldRetryJob(newRetryCount, mr) == newRetryCount < JsOr(mr, FallbackMaxRetries)

\* The effect of a status write on the history of terminal writes.
Written(s) == IF s \in Terminal THEN terminalWrites \cup {s} ELSE terminalWrites

\* Local state of a background task that is not running.
WorkerLocalsReset ==
    /\ job' = [retry_count |-> 0, max_retries |-> 0]
    /\ keyQueue' = <<>>
    /\ ki' = 0 /\ mi' = 0 /\ attempt' = 0
    /\ result' = "null"
    /\ resultRow' = "null"
    /\ inFlight' = 0

InitStore ==
    /\ pool \in [PoolKeys -> KeyStates]
    /\ userKey \in {"none", "ok", "undecryptable"}

(***************************************************************************)
(* JSON values of a parsed provider response. Numbers on the band scale    *)
(* are counted in half bands (4.0 is 8, 1.5 is 3).                         *)
(***************************************************************************)

Undefined == [t |-> "undefined"]

Null == [t |-> "null"]

Num(n) == [t |-> "number", v |-> n]

Str(text) == [t |-> "string", v |-> text]

Arr(items) == [t |-> "array", items |-> items]

\* A criterion object with its score and feedback properties.
Criterion(score, feedback) == [t |-> "object", score |-> score, feedback |-> feedback]

\* A question score object.
QuestionScore(score) == [t |-> "object", score |-> score]

\* An object without the properties read from it.
PlainObject == [t |-> "object"]

\* a ?? b
Nullish(x) == x.t \in {"undefined", "null"}

Coalesce(a, b) == IF Nullish(a) THEN b ELSE a

\* a || b
Falsy(x) == Nullish(x) \/ x = Num(0) \/ x = Str("")

Or(a, b) == IF Falsy(a) THEN b ELSE a

\* x.name, for x not nullish (reading a property of undefined or null raises).
Get(x, name) == IF x.t = "object" /\ name \in DOMAIN x THEN x[name] ELSE Undefined

\* The fields of the parsed response the pipelines read.
RawFields == {"overallBand", "overall_band", "questionScores", "minimalResponseCount",
              "totalQuestionCount", "fluencyCoherence", "fluency_coherence",
              "lexicalResource", "lexical_resource", "grammaticalRange",
              "grammatical_range", "pronunciation", "partAnalysis", "modelAnswers",
              "criteria"}

\* The JSON object {}.
EmptyObject == [f \in RawFields |-> Undefined]

\* No result was built yet.
NotShaped == [by |-> "none"]

\* The result of a function that raised a TypeError.
Raised == [t |-> "raised"]

\* The concurrent requests that write to the credential store.
NumWriters == 2

Writers == 1 .. NumWriters

\* Store operations the writers perform in all.
MaxStoreCalls == 4

\* A writer between two store operations.
WriterIdle == [pc |-> "idle", op |-> "none", key |-> 0, read |-> 0, calls |-> 0]

\* The select of the latest job of the test returned no row.
NoJob == [status |-> "none", result_id |-> "null", last_error |-> "null"]

\* No status hook is mounted.
InitHookIdle ==
    /\ hookKind = "none"
    /\ jobStatus = "null"
    /\ hasCompletedRef = FALSE
    /\ onCompleteCalls = 0
    /\ onFailedCalls = 0
    /\ events = <<>>
    /\ pollPc = "idle"
    /\ polled = NoJob

InitServerIdle ==
    /\ readFailed = FALSE
    /\ status = "none"
    /\ retry_count = 0
    /\ max_retries = 0
    /\ last_error = "null"
    /\ result_id = "null"
    /\ resultRows = {}
    /\ servePc = "start"
    /\ jobError = FALSE
    /\ resp = "none"
    /\ workerPc = "idle"
    /\ job = [retry_count |-> 0, max_retries |-> 0]
    /\ thrown = "none"
    /\ keyQueue = <<>>
    /\ ki = 0 /\ mi = 0 /\ attempt = 0
    /\ result = "null"
    /\ resultRow = "null"
    /\ inFlight = 0
    /\ providerCalled = FALSE
    /\ terminalWrites = {}
    /\ attempted = {}
    /\ writers = [w \in Writers |-> WriterIdle]
    /\ flagWritten = {}
    /\ deactivated = {}
    /\ userKeyFailed = FALSE

InitCoreIdle ==
    /\ InitServerIdle
    /\ InitHookIdle

\* The repair pass has not been entered.
InitRepairIdle ==
    /\ transcriptsMap = <<>>
    /\ transcriptsBefore = <<>>
    /\ clips = <<>>
    /\ durations = <<>>
    /\ limitedKeys = <<>>
    /\ repairPc = "idle"
    /\ repairModel = 0

\* No job row, nothing in flight, no stored key in use.
InitRunIdle ==
    /\ InitCoreIdle
    /\ InitRepairIdle

\* No text was parsed yet.
NotParsed == [by |-> "none"]

\* No job row, nothing in flight, no response to shape.
InitShapeIdle ==
    /\ InitRunIdle
    /\ raw = EmptyObject
    /\ shaped = NotShaped

\* No job row, nothing in flight, no response parsed.
InitJobIdle ==
    /\ InitShapeIdle
    /\ canonical = <<>>
    /\ responseText = <<>>
    /\ parsed = NotParsed

\* serve, lines 569-586: authentication and request validation.
ServeReject ==
    /\ servePc = "start"
    /\ req # "ok"
    /\ servePc' = "done"
    /\ resp' = IF req = "unauth" THEN "401" ELSE "400"
    /\ UNCHANGED <<hookVars, readVars, repairVars, parseVars, shapeVars, writerVars, classifyVars, partVars, runVars, inlineVars, storeVars, jobVars, req, jobError, workerVars, terminalWrites>>

\* serve, lines 590-604: the insert of the job row, status 'pending', with the
\* column defaults for retry_count and max_retries.
ServeInsertJob ==
    /\ servePc = "start"
    /\ req = "ok"
    /\ servePc' = "inserted"
    /\ \E ok \in BOOLEAN :
        IF ok
        THEN /\ status' = "pending"
             /\ retry_count' = DefaultRetryCount
             /\ max_retries' = DefaultMaxRetries
             /\ jobError' = FALSE
        ELSE /\ jobError' = TRUE
             /\ UNCHANGED <<status, retry_count, max_retries>>
    /\ UNCHANGED <<hookVars, readVars, repairVars, parseVars, shapeVars, writerVars, classifyVars, partVars, runVars, inlineVars, storeVars, last_error, result_id, resultRows, req, resp,
                   workerVars, terminalWrites>>

\* A handler that awaits the background task before it answers.
ServeRespondAfterBackground ==
    /\ servePc = "inserted"
    /\ IF jobError
       THEN /\ servePc' = "done"
            /\ resp' = "500"
            /\ UNCHANGED workerPc
       ELSE IF workerPc = "idle"
       THEN /\ workerPc' = "markProcessing"
            /\ UNCHANGED <<servePc, resp>>
       ELSE /\ workerPc \in {"done", "killed"}
            /\ servePc' = "done"
            /\ resp' = "202"
            /\ UNCHANGED workerPc
    /\ UNCHANGED <<hookVars, readVars, repairVars, parseVars, shapeVars, writerVars, classifyVars, partVars, runVars, inlineVars, storeVars, jobVars, req, jobError, job, thrown, keyQueue, ki, mi, attempt, result, resultRow, inFlight, providerCalled,
                   terminalWrites>>

\* serve, lines 606-650: on an insert error answer 500; otherwise start
\* processInBackground (EdgeRuntime.waitUntil, or a detached promise) and answer
\* 202 in the same turn, without awaiting it.
ServeRespond ==
    /\ servePc = "inserted"
    /\ servePc' = "done"
    /\ IF jobError
       THEN /\ resp' = "500"
            /\ UNCHANGED workerPc
       ELSE /\ resp' = "202"
            /\ workerPc' = "markProcessing"
    /\ UNCHANGED <<hookVars, readVars, repairVars, parseVars, shapeVars, writerVars, classifyVars, partVars, runVars, inlineVars, storeVars, jobVars, req, jobError, job, thrown, keyQueue, ki, mi, attempt, result, resultRow, inFlight, providerCalled,
                   terminalWrites>>

\* runEvaluation, lines 671-675: update status 'processing' (the result of the
\* update is not inspected).
MarkProcessing ==
    /\ workerPc = "markProcessing"
    /\ workerPc' = "getJob"
    /\ \E ok \in BOOLEAN :
        IF ok THEN status' = "processing" ELSE UNCHANGED status
    /\ UNCHANGED <<hookVars, readVars, repairVars, parseVars, shapeVars, writerVars, classifyVars, partVars, runVars, inlineVars, storeVars, retry_count, max_retries, last_error, result_id,
                   resultRows, serveVars, job, thrown, keyQueue, ki, mi, attempt,
                   result, resultRow, inFlight, providerCalled, terminalWrites>>

\* runEvaluation, lines 677-686: read the job row; no row (or a failed read)
\* throws 'Job not found'.
GetJob ==
    /\ workerPc = "getJob"
    /\ \E ok \in BOOLEAN :
        IF ok
        THEN /\ job' = [retry_count |-> retry_count, max_retries |-> max_retries]
             /\ workerPc' = "getTest"
             /\ UNCHANGED thrown
        ELSE /\ thrown' = "Job not found"
             /\ workerPc' = "catch"
             /\ UNCHANGED job
    /\ UNCHANGED <<hookVars, readVars, repairVars, parseVars, shapeVars, writerVars, classifyVars, partVars, runVars, inlineVars, storeVars, jobVars, serveVars, keyQueue, ki, mi,
                   attempt, result, resultRow, inFlight, providerCalled, terminalWrites>>

\* runEvaluation, lines 688-711: read the test row of the owner; none throws
\* 'Test not found'.
GetTest ==
    /\ workerPc = "getTest"
    /\ \E found \in BOOLEAN :
        IF found
        THEN /\ workerPc' = "download"
             /\ UNCHANGED thrown
        ELSE /\ thrown' = "Test not found"
             /\ workerPc' = "catch"
    /\ UNCHANGED <<hookVars, readVars, repairVars, parseVars, shapeVars, writerVars, classifyVars, partVars, runVars, inlineVars, storeVars, jobVars, serveVars, job, keyQueue,
                   ki, mi, attempt, result, resultRow, inFlight, providerCalled, terminalWrites>>

\* runEvaluation, lines 713-733: download every file path from the blob store;
\* failed downloads are skipped, and no download at all throws.
DownloadAudio ==
    /\ workerPc = "download"
    /\ \E n \in 0 .. NumSegments :
        IF n = 0
        THEN /\ thrown' = "No audio files could be downloaded"
             /\ workerPc' = "catch"
        ELSE /\ workerPc' = "buildQueue"
             /\ UNCHANGED thrown
    /\ UNCHANGED <<hookVars, readVars, repairVars, parseVars, shapeVars, writerVars, classifyVars, partVars, runVars, inlineVars, storeVars, jobVars, serveVars, job, keyQueue, ki, mi,
                   attempt, result, resultRow, inFlight, providerCalled, terminalWrites>>

\* The key queue of runEvaluation, lines 735-759: the user's key when its row
\* was read and decrypts, then the pool keys in the order the store returns them.
BuildKeyQueue(userRead, poolOrder) ==
    (IF userRead /\ userKey = "ok" THEN <<UserKeyId>> ELSE <<>>) \o poolOrder

\* runEvaluation, lines 735-766: build the key queue; an empty queue throws
\* 'No API keys available'. getActiveGeminiKeysForModel (_shared) raising on a
\* failed read of the pool keys is the second disjunct.
BuildQueue ==
    /\ workerPc = "buildQueue"
    /\ \/ \E userRead \in BOOLEAN, order \in Orderings(ActiveGeminiKeysForModel(pool)) :
            LET q == BuildKeyQueue(userRead, order) IN
            /\ readFailed' = ~userRead
            /\ IF Len(q) = 0
               THEN /\ thrown' = "No API keys available"
                    /\ workerPc' = "catch"
                    /\ UNCHANGED <<keyQueue, ki, mi, attempt>>
               ELSE /\ keyQueue' = q
                    /\ ki' = 1 /\ mi' = 1 /\ attempt' = 0
                    /\ workerPc' = "call"
                    /\ UNCHANGED thrown
       \/ /\ readFailed' = TRUE
          /\ thrown' = "Failed to fetch API keys"
          /\ workerPc' = "catch"
          /\ UNCHANGED <<keyQueue, ki, mi, attempt>>
    /\ UNCHANGED <<hookVars, repairVars, parseVars, shapeVars, writerVars, classifyVars, partVars, runVars, inlineVars, storeVars, jobVars, serveVars, job, result, resultRow, inFlight, providerCalled, terminalWrites>>

\* What one provider call can come back with: a non-2xx response with a body,
\* a 2xx response whose candidate text is valid JSON, unparseable or empty, or
\* a rejected fetch / unreadable body (an exception inside the try block).
ProviderBodies ==
    {{}, {[phrase |-> "quota", case |-> "upper"]},
         {[phrase |-> "too many requests", case |-> "lower"]}}

\* The body of a response that rejects the API key.
InvalidKeyBody == {[phrase |-> "api key", case |-> "lower"]}

\* The responses a provider script answers every call with: "all404" a 404
\* with any body, "allQuota" a 429 whose body reports the quota,
\* "allInvalidKey" a 400 whose body names the API key, "allMalformed" a 200
\* whose text is empty or is not JSON, "silent" no response
\* at all, so that a fetch ends only by the abort of its timeout, where it has
\* one; any other script does not restrict them.
Scripted(outcomes) ==
    IF provider = "all404"
    THEN {o \in outcomes : o.kind = "error" /\ o.httpStatus = 404}
    ELSE IF provider = "allQuota"
    THEN {o \in outcomes : /\ o.kind = "error" /\ o.httpStatus = 429
                           /\ o.body = {[phrase |-> "quota", case |-> "upper"]}}
    ELSE IF provider = "allInvalidKey"
    THEN {o \in outcomes : /\ o.kind = "error" /\ o.httpStatus = 400
                           /\ o.body = InvalidKeyBody}
    ELSE IF provider = "allMalformed"
    THEN {o \in outcomes : o.kind = "ok" /\ o.text \in {"garbage", "empty"}}
    ELSE IF provider = "silent"
    THEN {o \in outcomes : o.kind = "timeout"}
    ELSE outcomes

ProviderOutcomes ==
    [kind : {"error"}, httpStatus : ErrorStatuses,
     body : ProviderBodies \cup {InvalidKeyBody}, text : {"none"}]
    \cup [kind : {"ok"}, httpStatus : {200}, body : {{}}, text : {"json", "garbage", "empty"}]
    \cup [kind : {"throw"}, httpStatus : {0}, body : {{}}, text : {"none"}]

\* The position of the current (key, model) pair in the order of rotation.
PairNo == (ki - 1) * NumModels + mi

\* The answers of the provider to a call for the pair at a position. "any":
\* whatever a call can come back with. "quotaQuotaOk": 429 with "quota" in the
\* body for the first two pairs and 200 with valid JSON from the third on.
\* "all503": 503 for every pair on every attempt. Else the responses of
\* Scripted.
ProviderAnswers(pairNo) ==
    IF provider = "quotaQuotaOk"
    THEN IF pairNo <= 2
         THEN {o \in ProviderOutcomes : /\ o.kind = "error" /\ o.httpStatus = 429
                                        /\ o.body = {[phrase |-> "quota", case |-> "upper"]}}
         ELSE {o \in ProviderOutcomes : o.kind = "ok" /\ o.text = "json"}
    ELSE IF provider = "all503"
    THEN {o \in ProviderOutcomes : o.kind = "error" /\ o.httpStatus = 503 /\ o.body = {}}
    ELSE Scripted(ProviderOutcomes)

\* parseJson, lines 933-940, on the candidate text of a 2xx response.
parseJson(text) == IF text = "json" THEN "ok" ELSE "null"

\* A variant that leaves the key for the next one after any break.
AdvanceModel_nextKey ==
    IF ki < Len(keyQueue)
    THEN /\ ki' = ki + 1 /\ mi' = 1 /\ attempt' = 0
         /\ workerPc' = "call"
    ELSE /\ ki' = 0 /\ mi' = 0 /\ attempt' = 0
         /\ workerPc' = "afterLoop"

\* break out of the retry loop: the next model of the same key, else the
\* first model of the next key, else the end of the loops.
AdvanceModel ==
    IF mi < NumModels
    THEN /\ mi' = mi + 1 /\ attempt' = 0 /\ UNCHANGED ki
         /\ workerPc' = "call"
    ELSE IF ki < Len(keyQueue)
    THEN /\ ki' = ki + 1 /\ mi' = 1 /\ attempt' = 0
         /\ workerPc' = "call"
    ELSE /\ ki' = 0 /\ mi' = 0 /\ attempt' = 0
         /\ workerPc' = "afterLoop"

\* A variant that tries the pair again without counting the attempt.
RetryAttempt_uncounted ==
    /\ attempt' = attempt
    /\ UNCHANGED <<ki, mi>>
    /\ workerPc' = "call"

\* continue: the next attempt of the same (key, model) pair, after the backoff.
RetryAttempt ==
    /\ attempt' = attempt + 1
    /\ UNCHANGED <<ki, mi>>
    /\ workerPc' = "call"

\* A variant that issues the next fetch without awaiting the response of the
\* previous one.
ProviderCall_noAwait ==
    /\ workerPc \in {"call", "await"}
    /\ workerPc' = "await"
    /\ inFlight' = inFlight + 1
    /\ providerCalled' = TRUE
    /\ attempted' = attempted \cup {keyQueue[ki]}
    /\ UNCHANGED <<hookVars, readVars, repairVars, parseVars, shapeVars, writerVars, classifyVars, partVars, provider, pipeline, inlineVars, storeVars, jobVars, serveVars, job, thrown, keyQueue, ki, mi, attempt, result, resultRow, terminalWrites>>

\* runEvaluation, lines 777-798: the fetch of one (key, model, attempt).
ProviderCall ==
    /\ workerPc = "call"
    /\ workerPc' = "await"
    /\ inFlight' = inFlight + 1
    /\ providerCalled' = TRUE
    /\ attempted' = attempted \cup {keyQueue[ki]}
    /\ UNCHANGED <<hookVars, readVars, repairVars, parseVars, shapeVars, writerVars, classifyVars, partVars, provider, pipeline, inlineVars, storeVars, jobVars, serveVars, job, thrown, keyQueue, ki, mi, attempt, result, resultRow, terminalWrites>>

\* A variant that flags a pool key on a quota failure of any candidate, the
\* user's entry included (the first key of the store stands in for it).
StoreAfterFailure_anyCandidate(c, candidate) ==
    IF c.isQuota
    THEN markKeyQuotaExhausted(pool, IF candidate = UserKeyId THEN 1 ELSE candidate)
    ELSE pool

\* runEvaluation, lines 825-827: a quota failure of a candidate with an id (a
\* pool key) flags the key; the user's entry has id null.
StoreAfterFailure(c, candidate) ==
    IF c.isQuota /\ candidate # UserKeyId
    THEN markKeyQuotaExhausted(pool, candidate)
    ELSE pool

\* runEvaluation, lines 800-852: the outcome of the fetch.
HandleResponse ==
    /\ workerPc = "await"
    /\ inFlight' = inFlight - 1
    /\ \E o \in ProviderAnswers(PairNo) :
        LET c == classifyInline(o.httpStatus, o.body)
            candidate == keyQueue[ki]
        IN
        IF o.kind = "error"
        THEN IF c.isNotFound
             THEN AdvanceModel /\ UNCHANGED <<pool, result>>
             ELSE IF c.isRetryable /\ attempt < MaxRetriesPerCall
             THEN RetryAttempt /\ UNCHANGED <<pool, result>>
             ELSE /\ pool' = StoreAfterFailure(c, candidate)
                  /\ AdvanceModel
                  /\ UNCHANGED result
        ELSE IF o.kind = "ok"
        THEN IF o.text # "empty" /\ parseJson(o.text) # "null"
             THEN /\ result' = parseJson(o.text)
                  /\ ki' = 0 /\ mi' = 0 /\ attempt' = 0
                  /\ workerPc' = "afterLoop"
                  /\ UNCHANGED pool
             ELSE AdvanceModel /\ UNCHANGED <<pool, result>>
        ELSE IF attempt < MaxRetriesPerCall
             THEN RetryAttempt /\ UNCHANGED <<pool, result>>
             ELSE AdvanceModel /\ UNCHANGED <<pool, result>>
    /\ UNCHANGED <<hookVars, readVars, repairVars, parseVars, shapeVars, writerVars, classifyVars, partVars, runVars, inlineVars, userKey, jobVars, serveVars, job, thrown, keyQueue, resultRow, providerCalled, terminalWrites>>

\* runEvaluation, lines 859-871: without a result, either reset the job to
\* 'pending' with the incremented retry count and return, or throw.
AfterLoop ==
    /\ workerPc = "afterLoop"
    /\ IF result = "null"
       THEN LET newRetryCount == NewRetryCount(job.retry_count) IN
            IF ShouldRetryJob(newRetryCount, job.max_retries)
            THEN /\ \E ok \in BOOLEAN :
                     IF ok
                     THEN /\ status' = "pending"
                          /\ retry_count' = newRetryCount
                          /\ last_error' = "All models failed"
                     ELSE UNCHANGED <<status, retry_count, last_error>>
                 /\ workerPc' = "done"
                 /\ WorkerLocalsReset
                 /\ UNCHANGED thrown
            ELSE /\ thrown' = "Evaluation failed after all retries"
                 /\ workerPc' = "catch"
                 /\ UNCHANGED <<status, retry_count, last_error, job, keyQueue,
                                ki, mi, attempt, result, resultRow, inFlight>>
       ELSE /\ workerPc' = "saveResult"
            /\ UNCHANGED <<status, retry_count, last_error, job, keyQueue,
                           ki, mi, attempt, result, resultRow, inFlight, thrown>>
    /\ UNCHANGED <<hookVars, readVars, repairVars, parseVars, shapeVars, writerVars, classifyVars, partVars, runVars, inlineVars, storeVars, max_retries, result_id, resultRows, serveVars,
                   providerCalled, terminalWrites>>

\* runEvaluation, lines 873-896: insert the evaluation into ai_practice_results;
\* a save error is logged and execution goes on with resultRow null.
SaveResult ==
    /\ workerPc = "saveResult"
    /\ workerPc' = "markCompleted"
    /\ \E ok \in BOOLEAN :
        IF ok
        THEN /\ resultRows' = resultRows \cup {"r1"}
             /\ resultRow' = "r1"
        ELSE /\ resultRow' = "null"
             /\ UNCHANGED resultRows
    /\ UNCHANGED <<hookVars, readVars, repairVars, parseVars, shapeVars, writerVars, classifyVars, partVars, runVars, inlineVars, storeVars, status, retry_count, max_retries, last_error,
                   result_id, serveVars, job, thrown, keyQueue, ki, mi, attempt,
                   result, inFlight, providerCalled, terminalWrites>>

\* The result_id written by the completing update: resultRow?.id, and an
\* undefined value leaves the column as it is.
CompletedResultId == IF resultRow # "null" THEN resultRow ELSE result_id

\* runEvaluation, lines 898-908: update status 'completed' with result_id and
\* completed_at (the result of the update is not inspected).
MarkCompleted ==
    /\ workerPc = "markCompleted"
    /\ workerPc' = "done"
    /\ \E ok \in BOOLEAN :
        IF ok
        THEN /\ status' = "completed"
             /\ result_id' = CompletedResultId
             /\ terminalWrites' = Written("completed")
        ELSE UNCHANGED <<status, result_id, terminalWrites>>
    /\ WorkerLocalsReset
    /\ UNCHANGED <<hookVars, readVars, repairVars, parseVars, shapeVars, writerVars, classifyVars, partVars, runVars, inlineVars, storeVars, retry_count, max_retries, last_error, resultRows,
                   serveVars, thrown, providerCalled>>

\* The last_error written by the catch block of processInBackground.
CatchErrorText == thrown

\* processInBackground, lines 620-629: the catch block updates the job to
\* 'failed' with the error's message (the result of the update is not inspected).
CatchError ==
    /\ workerPc = "catch"
    /\ workerPc' = "done"
    /\ \E ok \in BOOLEAN :
        IF ok
        THEN /\ status' = "failed"
             /\ last_error' = CatchErrorText
             /\ terminalWrites' = Written("failed")
        ELSE UNCHANGED <<status, last_error, terminalWrites>>
    /\ WorkerLocalsReset
    /\ UNCHANGED <<hookVars, readVars, repairVars, parseVars, shapeVars, writerVars, classifyVars, partVars, runVars, inlineVars, storeVars, retry_count, max_retries, result_id, resultRows,
                   serveVars, thrown, providerCalled>>

Running == {"markProcessing", "getJob", "getTest", "download", "buildQueue", "call",
            "await", "afterLoop", "saveResult", "markCompleted", "catch"}

\* The host ends the background execution context before the task completes.
Kill ==
    /\ workerPc \in Running
    /\ workerPc' = "killed"
    /\ WorkerLocalsReset
    /\ UNCHANGED <<hookVars, readVars, repairVars, parseVars, shapeVars, writerVars, classifyVars, partVars, runVars, inlineVars, storeVars, jobVars, serveVars, thrown, providerCalled,
                   terminalWrites>>

\* A retry count and a retry ceiling an owner may write through the update policy.
OwnerRetryCount == 7

OwnerMaxRetries == 0

\* Policy "Users can check their pending jobs" (FOR UPDATE): the owner may
\* update a row whose status is 'pending' or 'failed' to a row whose status is
\* 'pending' or 'failed'; no column is excluded. The owner rewrites the status
\* alone, or the retry counter, last error and result reference with it, or
\* the retry ceiling.
OwnerUpdate ==
    /\ status \in {"pending", "failed"}
    /\ \E s \in {"pending", "failed"}, tamper \in {"status", "fields", "ceiling"} :
        /\ tamper = "status" => s # status
        /\ tamper = "ceiling" => (s = status /\ max_retries # OwnerMaxRetries)
        /\ status' = s
        /\ retry_count' = IF tamper = "fields" THEN OwnerRetryCount ELSE retry_count
        /\ last_error' = IF tamper = "fields" THEN "owner text" ELSE last_error
        /\ result_id' = IF tamper = "fields" THEN "forged" ELSE result_id
        /\ max_retries' = IF tamper = "ceiling" THEN OwnerMaxRetries ELSE max_retries
        /\ terminalWrites' = IF s # status THEN Written(s) ELSE terminalWrites
    /\ UNCHANGED <<hookVars, readVars, repairVars, parseVars, shapeVars, writerVars, classifyVars, partVars, runVars, inlineVars, storeVars, resultRows, serveVars, workerVars>>

NoOut == [none |-> TRUE]

InitClassifyIdle ==
    /\ cStatus = 0
    /\ cBody = {}
    /\ cOut = NoOut

InitStoreIdle ==
    /\ pool = [k \in PoolKeys |-> KeyFresh]
    /\ userKey = "none"

(***************************************************************************)
(* The inline-audio pipeline: serve of evaluate-ai-speaking                *)
(***************************************************************************)

\* GEMINI_MODELS_FALLBACK_ORDER has four entries.
NumInlineModels == 4

\* The base64 length that separates a payload that is skipped from one that
\* is used: the upload loop skips length < 100 and buildGeminiContents sends
\* length > 100.
MinBase64Len == 100

Segments == 1 .. NumSegments

\* Lengths of the base64 payloads a client submits: empty, and the lengths
\* around the threshold.
Base64Lengths == {0, MinBase64Len - 1, MinBase64Len, MinBase64Len + 1}

NoError == [code |-> "none", isQuota |-> FALSE, isRateLimit |-> FALSE, isInvalidKey |-> FALSE]

\* lastError of an aborted (timed out) fetch.
TimeoutError == ErrorInfo("TIMEOUT", FALSE, FALSE, FALSE)

CallResult(success, fallback) == [success |-> success, shouldFallbackToPool |-> fallback]

InitInlineIdle ==
    /\ inlinePc = "idle"
    /\ audioData = [k \in Segments |-> 0]
    /\ audioUrls = {}
    /\ contents = [k \in Segments |-> "none"]
    /\ activePoolKeys = <<>>
    /\ usingUserKey = FALSE
    /\ currentPoolKeyIndex = 0
    /\ phase = "none"
    /\ rot = 0
    /\ poolKeyId = UserKeyId
    /\ modelIndex = 0
    /\ evaluationRaw = "null"
    /\ lastError = NoError
    /\ callResult = CallResult(FALSE, FALSE)

\* incrementKeyErrorCount(client, keyId, deactivate)
incrementKeyErrorCount(p, keyId, deactivate) ==
    IF deactivate
    THEN [p EXCEPT ![keyId].is_active = FALSE]
    ELSE [p EXCEPT ![keyId].error_count = JsOr(@, 0) + 1]

\* A variant of markKeyQuotaExhaustedForFlash that also counts the failure.
markKeyQuotaExhaustedForFlash_counting(p, keyId) ==
    incrementKeyErrorCount(markKeyQuotaExhausted(p, keyId), keyId, FALSE)

\* markKeyQuotaExhaustedForFlash(client, keyId)
markKeyQuotaExhaustedForFlash(p, keyId) == markKeyQuotaExhausted(p, keyId)

\* A variant of resetKeyErrorCount that rewrites the whole row.
resetKeyErrorCount_wholeRow(p, keyId) ==
    [p EXCEPT ![keyId] = [is_active |-> @.is_active, flash_quota_exhausted |-> FALSE,
                          error_count |-> 0]]

\* resetKeyErrorCount(client, keyId)
resetKeyErrorCount(p, keyId) == [p EXCEPT ![keyId].error_count = 0]

\* The poolKeyId argument for the pool key at a (0-based) index.
PoolKeyAt(index) == activePoolKeys[index + 1]

\* serve, lines 281-372: authentication, the user's key, the pool keys, the
\* choice of the first key; no key at all answers 403 API_KEY_NOT_FOUND.
InlineLoadKeys ==
    /\ inlinePc = "keys"
    /\ IF req = "unauth"
       THEN /\ resp' = "401"
            /\ UNCHANGED readFailed
            /\ inlinePc' = "done"
            /\ UNCHANGED <<activePoolKeys, usingUserKey, currentPoolKeyIndex, poolKeyId>>
       ELSE \E secretRead \in BOOLEAN, order \in Orderings(ActiveGeminiKeysForModel(pool)),
               random \in 0 .. Cardinality(DOMAIN pool) - 1 :
            LET haveUser == secretRead /\ userKey = "ok" IN
            /\ readFailed' = ~secretRead
            /\ activePoolKeys' = order
            /\ usingUserKey' = haveUser
            /\ IF haveUser
               THEN /\ random = 0
                    /\ UNCHANGED <<currentPoolKeyIndex, poolKeyId, resp>>
                    /\ inlinePc' = "validate"
               ELSE IF Len(order) > 0
               THEN /\ random < Len(order)
                    /\ currentPoolKeyIndex' = random
                    /\ poolKeyId' = order[random + 1]
                    /\ UNCHANGED resp
                    /\ inlinePc' = "validate"
               ELSE /\ random = 0
                    /\ resp' = "403"
                    /\ inlinePc' = "done"
                    /\ UNCHANGED <<currentPoolKeyIndex, poolKeyId>>
    /\ UNCHANGED <<hookVars, repairVars, parseVars, shapeVars, writerVars, classifyVars, partVars, runVars, storeVars, jobVars, req, servePc, jobError, workerVars,
                   terminalWrites, audioData, audioUrls, contents, phase, rot, modelIndex,
                   evaluationRaw, lastError, callResult>>

\* serve, lines 374-533: the request body, the test row of the caller and its
\* speaking parts.
InlineValidate ==
    /\ inlinePc = "validate"
    /\ IF req = "bad"
       THEN resp' = "400" /\ inlinePc' = "done"
       ELSE \E test \in {"ok", "missing", "noParts"} :
            IF test = "ok"
            THEN inlinePc' = "upload" /\ UNCHANGED resp
            ELSE /\ resp' = IF test = "missing" THEN "404" ELSE "400"
                 /\ inlinePc' = "done"
    /\ UNCHANGED <<hookVars, readVars, repairVars, parseVars, shapeVars, writerVars, classifyVars, partVars, runVars, storeVars, jobVars, req, servePc, jobError, workerVars,
                   terminalWrites, audioData, audioUrls, contents, activePoolKeys,
                   usingUserKey, currentPoolKeyIndex, phase, rot, poolKeyId, modelIndex,
                   evaluationRaw, lastError, callResult>>

\* serve, lines 536-575: every payload of base64 length >= 100 is uploaded to
\* the blob store; payloads under 100 are skipped and a failed upload is only
\* logged. The loop has no exit other than its end.
InlineUpload ==
    /\ inlinePc = "upload"
    /\ \E uploaded \in SUBSET {k \in Segments : ~(audioData[k] < MinBase64Len)} :
        audioUrls' = uploaded
    /\ inlinePc' = "build"
    /\ UNCHANGED <<hookVars, readVars, repairVars, parseVars, shapeVars, writerVars, classifyVars, partVars, runVars, storeVars, jobVars, serveVars, workerVars, terminalWrites,
                   audioData, contents, activePoolKeys, usingUserKey, currentPoolKeyIndex,
                   phase, rot, poolKeyId, modelIndex, evaluationRaw, lastError, callResult>>

\* buildGeminiContents, lines 941-1025: per question the inline audio when the
\* base64 length is over 100, otherwise the text "No usable audio was
\* provided ..."; the prompt is returned in either case.
buildGeminiContents(audio) ==
    [k \in Segments |-> IF audio[k] > MinBase64Len THEN "inlineData" ELSE "noUsableAudioText"]

\* serve, lines 577-585 and 694: the prompt is built and callGemini is entered
\* with the first key.
InlineBuildContents ==
    /\ inlinePc = "build"
    /\ contents' = buildGeminiContents(audioData)
    /\ phase' = "first"
    /\ modelIndex' = 1
    /\ inlinePc' = "call"
    /\ UNCHANGED <<hookVars, readVars, repairVars, parseVars, shapeVars, writerVars, classifyVars, partVars, runVars, storeVars, jobVars, serveVars, workerVars, terminalWrites,
                   audioData, audioUrls, activePoolKeys, usingUserKey, currentPoolKeyIndex,
                   rot, poolKeyId, evaluationRaw, lastError, callResult>>

\* callGemini, lines 601-617: the fetch for the current key and model.
InlineProviderCall ==
    /\ inlinePc = "call"
    /\ inlinePc' = "await"
    /\ inFlight' = inFlight + 1
    /\ providerCalled' = TRUE
    /\ attempted' = attempted \cup {poolKeyId}
    /\ UNCHANGED <<hookVars, readVars, repairVars, parseVars, shapeVars, writerVars, classifyVars, partVars, provider, pipeline, storeVars, jobVars, serveVars, workerPc, job, thrown,
                   keyQueue, ki, mi, attempt, result, resultRow, terminalWrites,
                   audioData, audioUrls, contents, activePoolKeys, usingUserKey,
                   currentPoolKeyIndex, phase, rot, poolKeyId, modelIndex, evaluationRaw,
                   lastError, callResult>>

\* What one fetch of callGemini can come back with: a non-2xx response, a 2xx
\* response, an abort by the timeout, or another exception (with a message).
InlineOutcomes ==
    [kind : {"error"}, httpStatus : ErrorStatuses,
     body : ProviderBodies \cup {InvalidKeyBody}, text : {"none"}]
    \cup [kind : {"ok"}, httpStatus : {200}, body : {{}}, text : {"json", "garbage", "empty"}]
    \cup [kind : {"timeout", "throw"}, httpStatus : {0}, body : {{}}, text : {"none"}]

\* The answers of the provider to a fetch of callGemini or tryGeminiWithKey.
InlineAnswers == Scripted(InlineOutcomes)

\* parseJsonFromResponse, lines 880-922, on the text of a 2xx response.
parseJsonFromResponse(text) == IF text = "json" THEN "ok" ELSE "null"

\* continue: the next model of the fallback order, or the end of the loop,
\* where callGemini returns { success: false }.
InlineNextModel ==
    IF modelIndex < NumInlineModels
    THEN /\ modelIndex' = modelIndex + 1
         /\ inlinePc' = "call"
         /\ UNCHANGED callResult
    ELSE /\ modelIndex' = 0
         /\ callResult' = CallResult(FALSE, FALSE)
         /\ inlinePc' = "rotate"

\* return from callGemini.
InlineReturn(r) ==
    /\ callResult' = r
    /\ modelIndex' = 0
    /\ inlinePc' = "rotate"

\* callGemini, lines 619-690: the outcome of the fetch.
InlineHandleResponse ==
    /\ inlinePc = "await"
    /\ inFlight' = inFlight - 1
    /\ \E o \in InlineAnswers :
        LET e == classifyGeminiError(o.httpStatus, o.body)
            isPool == poolKeyId # UserKeyId
        IN
        IF o.kind = "error"
        THEN /\ lastError' = e
             /\ UNCHANGED evaluationRaw
             /\ IF isPool /\ (e.isQuota \/ e.isRateLimit)
                THEN /\ pool' = incrementKeyErrorCount(
                                    markKeyQuotaExhaustedForFlash(pool, poolKeyId),
                                    poolKeyId, FALSE)
                     /\ InlineReturn(CallResult(FALSE, FALSE))
                     /\ UNCHANGED resp
                ELSE IF isPool /\ e.isInvalidKey
                THEN /\ pool' = incrementKeyErrorCount(pool, poolKeyId, TRUE)
                     /\ InlineReturn(CallResult(FALSE, FALSE))
                     /\ UNCHANGED resp
                ELSE IF usingUserKey /\ (e.isQuota \/ e.isRateLimit)
                THEN /\ InlineReturn(CallResult(FALSE, TRUE))
                     /\ UNCHANGED <<pool, resp>>
                ELSE IF usingUserKey /\ e.isInvalidKey
                THEN /\ resp' = "500"
                     /\ inlinePc' = "done"
                     /\ UNCHANGED <<pool, callResult, modelIndex>>
                ELSE InlineNextModel /\ UNCHANGED <<pool, resp>>
        ELSE IF o.kind = "ok"
        THEN IF o.text # "empty" /\ parseJsonFromResponse(o.text) # "null"
             THEN /\ evaluationRaw' = parseJsonFromResponse(o.text)
                  /\ pool' = IF isPool THEN resetKeyErrorCount(pool, poolKeyId) ELSE pool
                  /\ InlineReturn(CallResult(TRUE, FALSE))
                  /\ UNCHANGED <<lastError, resp>>
             ELSE InlineNextModel /\ UNCHANGED <<pool, resp, lastError, evaluationRaw>>
        ELSE IF o.kind = "timeout"
        THEN /\ lastError' = TimeoutError
             /\ InlineNextModel
             /\ UNCHANGED <<pool, resp, evaluationRaw>>
        ELSE /\ resp' = "500"
             /\ inlinePc' = "done"
             /\ UNCHANGED <<pool, callResult, modelIndex, lastError, evaluationRaw>>
    /\ UNCHANGED <<hookVars, readVars, repairVars, parseVars, shapeVars, writerVars, classifyVars, partVars, runVars, userKey, jobVars, req, servePc, jobError, workerPc, job,
                   thrown, keyQueue, ki, mi, attempt, result, resultRow, providerCalled,
                   terminalWrites, audioData, audioUrls, contents, activePoolKeys,
                   usingUserKey, currentPoolKeyIndex, phase, rot, poolKeyId>>

\* Enter callGemini with the pool key at a (0-based) index.
InlineCallPoolKey(index) ==
    /\ poolKeyId' = PoolKeyAt(index)
    /\ modelIndex' = 1
    /\ inlinePc' = "call"

\* serve, lines 694-714: after callGemini returned, fall back from the user's
\* key to a random pool key, rotate through the other pool keys, or go on to
\* the response.
InlineRotate ==
    /\ inlinePc = "rotate"
    /\ LET n == Len(activePoolKeys) IN
       IF phase = "first" /\ ~callResult.success /\ callResult.shouldFallbackToPool /\ n > 0
       THEN \E random \in 0 .. n - 1 :
            /\ usingUserKey' = FALSE
            /\ currentPoolKeyIndex' = random
            /\ phase' = "fallback"
            /\ InlineCallPoolKey(random)
            /\ UNCHANGED rot
       ELSE IF phase \in {"first", "fallback"} /\ ~callResult.success /\ ~usingUserKey /\ n > 1
       THEN /\ phase' = "rotate"
            /\ rot' = 1
            /\ InlineCallPoolKey((currentPoolKeyIndex + 1) % n)
            /\ UNCHANGED <<usingUserKey, currentPoolKeyIndex>>
       ELSE IF phase = "rotate" /\ rot + 1 < n /\ ~callResult.success
       THEN /\ rot' = rot + 1
            /\ InlineCallPoolKey((currentPoolKeyIndex + rot + 1) % n)
            /\ UNCHANGED <<usingUserKey, currentPoolKeyIndex, phase>>
       ELSE /\ inlinePc' = "respond"
            /\ UNCHANGED <<usingUserKey, currentPoolKeyIndex, phase, rot, poolKeyId,
                           modelIndex>>
    /\ UNCHANGED <<hookVars, readVars, repairVars, parseVars, shapeVars, writerVars, classifyVars, partVars, runVars, storeVars, jobVars, serveVars, workerVars, terminalWrites,
                   audioData, audioUrls, contents, activePoolKeys, evaluationRaw, lastError,
                   callResult>>

\* serve, lines 716-820: without an evaluation answer 429 or 500; with one,
\* normalise it, store the result row and answer 200.
InlineRespond ==
    /\ inlinePc = "respond"
    /\ inlinePc' = "done"
    /\ resp' = IF evaluationRaw = "null"
               THEN IF lastError.isQuota \/ lastError.isRateLimit THEN "429" ELSE "500"
               ELSE "200"
    /\ UNCHANGED <<hookVars, readVars, repairVars, parseVars, shapeVars, writerVars, classifyVars, partVars, runVars, storeVars, jobVars, req, servePc, jobError, workerVars,
                   terminalWrites, audioData, audioUrls, contents, activePoolKeys,
                   usingUserKey, currentPoolKeyIndex, phase, rot, poolKeyId, modelIndex,
                   evaluationRaw, lastError, callResult>>

InitInline ==
    /\ InitClassifyIdle
    /\ InitStore
    /\ InitJobIdle
    /\ provider = "any"
    /\ pipeline = "full"
    /\ req \in {"unauth", "bad", "ok"}
    /\ inlinePc = "keys"
    /\ audioData \in [Segments -> Base64Lengths]
    /\ audioUrls = {}
    /\ contents = [k \in Segments |-> "none"]
    /\ activePoolKeys = <<>>
    /\ usingUserKey = FALSE
    /\ currentPoolKeyIndex = 0
    /\ phase = "none"
    /\ rot = 0
    /\ poolKeyId = UserKeyId
    /\ modelIndex = 0
    /\ evaluationRaw = "null"
    /\ lastError = NoError
    /\ callResult = CallResult(FALSE, FALSE)

NextInline ==
    \/ InlineLoadKeys
    \/ InlineValidate
    \/ InlineUpload
    \/ InlineBuildContents
    \/ InlineProviderCall
    \/ InlineHandleResponse
    \/ InlineRotate
    \/ InlineRespond

\* The inline-audio pipeline serving one request.
SpecInline == InitInline /\ [][NextInline]_vars

InitClassify ==
    /\ cStatus \in ErrorStatuses
    /\ cBody \in Bodies
    /\ cOut = NoOut
    /\ InitStoreIdle
    /\ InitJobIdle
    /\ InitInlineIdle
    /\ provider = "any"
    /\ pipeline = "none"
    /\ req = "ok"

\* One provider error response is classified by every copy of the classifier.
Classify ==
    /\ cOut = NoOut
    /\ cOut' = [async  |-> classifyGeminiError_async(cStatus, cBody),
                full   |-> classifyGeminiError(cStatus, cBody),
                part   |-> classifyGeminiError_part(cStatus, cBody),
                inline |-> classifyInline(cStatus, cBody)]
    /\ UNCHANGED <<hookVars, readVars, repairVars, parseVars, shapeVars, writerVars, cStatus, cBody, partVars, runVars, inlineVars, storeVars, jobVars, serveVars, workerVars, terminalWrites>>

NextClassify == Classify

SpecClassify == InitClassify /\ [][NextClassify]_vars

(***************************************************************************)
(* Specifications of the asynchronous job                                  *)
(***************************************************************************)

Init ==
    /\ InitClassifyIdle
    /\ InitStore
    /\ InitJobIdle
    /\ InitInlineIdle
    /\ provider = "any"
    /\ pipeline = "async"
    /\ req \in {"unauth", "bad", "ok"}

\* The steps of the request handler and of the background task.
Progress ==
    \/ ServeReject
    \/ ServeInsertJob
    \/ ServeRespond
    \/ MarkProcessing
    \/ GetJob
    \/ GetTest
    \/ DownloadAudio
    \/ BuildQueue
    \/ ProviderCall
    \/ HandleResponse
    \/ AfterLoop
    \/ SaveResult
    \/ MarkCompleted
    \/ CatchError

Next == Progress \/ Kill

Spec == Init /\ [][Next]_vars

\* Every step of the subsystem's own code is eventually taken once it can be;
\* the host's kill is under no obligation.
FairSpec == Init /\ [][Next]_vars /\ WF_vars(Progress)

NextRLS == Next \/ OwnerUpdate

\* The job pipeline together with the job's owner acting through the
\* row-level update policy.
SpecRLS == Init /\ [][NextRLS]_vars

\* Number of keys in the pool of the scenario runs.
ScenarioPoolKeys == 3

\* An active pool key with an earlier failure on record.
KeyFailedOnce == [is_active |-> TRUE, flash_quota_exhausted |-> FALSE, error_count |-> 1]

\* A submission to the async job with a pool of active keys, none of them
\* flagged, and a provider that answers by one of the scenarios.
InitScenario ==
    /\ InitClassifyIdle
    /\ pool \in [1 .. ScenarioPoolKeys -> {KeyFresh, KeyFailedOnce}]
    /\ userKey \in {"none", "ok", "undecryptable"}
    /\ InitJobIdle
    /\ InitInlineIdle
    /\ provider \in {"quotaQuotaOk", "all503"}
    /\ pipeline = "async"
    /\ req \in {"unauth", "bad", "ok"}

SpecScenario == InitScenario /\ [][Next]_vars

\* "Quota / billing-plan language" in a body, whatever its letter case.
QuotaLanguage(body) ==
    \/ Includes(ToLower(body), "quota")
    \/ Includes(ToLower(body), "billing")

\* C10: a 429 response whose body has quota/billing language is classified
\* Quota and never RateLimit by each of the three classifyGeminiError copies
\* and by the inline classification of runEvaluation.
C10_QuotaNeverRateLimit ==
    (cOut # NoOut /\ cStatus = 429 /\ QuotaLanguage(cBody)) =>
        /\ cOut.async.isQuota /\ ~cOut.async.isRateLimit
        /\ cOut.full.isQuota /\ ~cOut.full.isRateLimit
        /\ cOut.part.isQuota /\ ~cOut.part.isRateLimit
        /\ cOut.inline.isQuota

\* C10 witness: a classified 429 whose body holds both quota language and
\* rate-limit language.
C10_Witness ==
    /\ cOut # NoOut
    /\ cStatus = 429
    /\ [phrase |-> "quota", case |-> "upper"] \in cBody
    /\ [phrase |-> "too many requests", case |-> "lower"] \in cBody
    /\ cOut.full.isQuota

(***************************************************************************)
(* The single-part pipeline: serve of evaluate-ai-speaking-part            *)
(***************************************************************************)

\* The rotation loop of the part pipeline stops at Math.min(poolKeys.length, 3).
PartMaxPoolKeys == 3

\* lastError before any call of the part pipeline.
UnknownError == ErrorInfo("UNKNOWN_ERROR", FALSE, FALSE, FALSE)

\* incrementKeyErrorCount(client, keyId, deactivate) of the part pipeline.
incrementKeyErrorCount_part(p, keyId, deactivate) ==
    IF deactivate
    THEN [p EXCEPT ![keyId].is_active = FALSE]
    ELSE [p EXCEPT ![keyId].error_count = JsOr(@, 0) + 1]

\* resetKeyErrorCount(client, keyId) of the part pipeline.
resetKeyErrorCount_part(p, keyId) == [p EXCEPT ![keyId].error_count = 0]

\* The variables of the async job, which the part pipeline leaves alone.
asyncLocals == <<jobVars, servePc, jobError, workerPc, job, thrown, keyQueue, ki, mi,
                 attempt, result, resultRow, terminalWrites>>

\* serve, lines 191-283: authentication, the pool keys, the user's key; without
\* a user key the first pool key is taken; no key at all answers 403.
PartLoadKeys ==
    /\ inlinePc = "keys"
    /\ IF req = "unauth"
       THEN /\ resp' = "401"
            /\ UNCHANGED readFailed
            /\ inlinePc' = "done"
            /\ UNCHANGED <<activePoolKeys, usingUserKey, poolKeyId>>
       ELSE \E secretRead \in BOOLEAN, order \in Orderings(ActiveGeminiKeysForModel(pool)) :
            LET haveUser == secretRead /\ userKey = "ok" IN
            /\ readFailed' = ~secretRead
            /\ activePoolKeys' = order
            /\ usingUserKey' = haveUser
            /\ IF haveUser
               THEN /\ UNCHANGED <<poolKeyId, resp>>
                    /\ inlinePc' = "validate"
               ELSE IF Len(order) > 0
               THEN /\ poolKeyId' = order[1]
                    /\ UNCHANGED resp
                    /\ inlinePc' = "validate"
               ELSE /\ resp' = "403"
                    /\ inlinePc' = "done"
                    /\ UNCHANGED poolKeyId
    /\ UNCHANGED <<hookVars, repairVars, parseVars, shapeVars, writerVars, classifyVars, partVars, runVars, storeVars, asyncLocals, req, inFlight,
                   providerCalled, audioData, audioUrls, contents, currentPoolKeyIndex,
                   phase, rot, modelIndex, evaluationRaw, lastError, callResult>>

\* serve, lines 285-298: the request body.
PartValidate ==
    /\ inlinePc = "validate"
    /\ IF req = "bad"
       THEN resp' = "400" /\ inlinePc' = "done"
       ELSE inlinePc' = "upload" /\ UNCHANGED resp
    /\ UNCHANGED <<hookVars, readVars, repairVars, parseVars, shapeVars, writerVars, classifyVars, partVars, runVars, storeVars, asyncLocals, req, inFlight,
                   providerCalled, audioData, audioUrls, contents, activePoolKeys,
                   usingUserKey, currentPoolKeyIndex, phase, rot, poolKeyId, modelIndex,
                   evaluationRaw, lastError, callResult>>

\* serve, lines 300-339: the upload loop, as in the full pipeline.
PartUpload ==
    /\ inlinePc = "upload"
    /\ \E uploaded \in SUBSET {k \in Segments : ~(audioData[k] < MinBase64Len)} :
        audioUrls' = uploaded
    /\ inlinePc' = "build"
    /\ UNCHANGED <<hookVars, readVars, repairVars, parseVars, shapeVars, writerVars, classifyVars, partVars, runVars, storeVars, asyncLocals, req, resp,
                   inFlight, providerCalled, audioData, contents, activePoolKeys,
                   usingUserKey, currentPoolKeyIndex, phase, rot, poolKeyId, modelIndex,
                   evaluationRaw, lastError, callResult>>

\* buildPartEvaluationContents, lines 636-788: per question the inline audio
\* when the base64 length is over 100, otherwise the text "No usable audio".
buildPartEvaluationContents(audio) ==
    [k \in Segments |-> IF audio[k] > MinBase64Len THEN "inlineData" ELSE "noUsableAudioText"]

\* serve, lines 341-470: the prompt is built; with a user key tryGeminiWithKey
\* is entered with it (keyId null), otherwise the rotation is reached directly.
PartBuildContents ==
    /\ inlinePc = "build"
    /\ contents' = buildPartEvaluationContents(audioData)
    /\ lastError' = UnknownError
    /\ phase' = "first"
    /\ IF usingUserKey
       THEN /\ modelIndex' = 1
            /\ poolKeyId' = UserKeyId
            /\ inlinePc' = "call"
       ELSE /\ inlinePc' = "rotate"
            /\ UNCHANGED <<modelIndex, poolKeyId>>
    /\ UNCHANGED <<hookVars, readVars, repairVars, parseVars, shapeVars, writerVars, classifyVars, partVars, runVars, storeVars, asyncLocals, req, resp,
                   inFlight, providerCalled, audioData, audioUrls, activePoolKeys,
                   usingUserKey, currentPoolKeyIndex, rot, evaluationRaw, callResult>>

\* tryGeminiWithKey, lines 376-395: the fetch for the current key and model.
PartProviderCall ==
    /\ inlinePc = "call"
    /\ inlinePc' = "await"
    /\ inFlight' = inFlight + 1
    /\ providerCalled' = TRUE
    /\ attempted' = attempted \cup {poolKeyId}
    /\ UNCHANGED <<hookVars, readVars, repairVars, parseVars, shapeVars, writerVars, classifyVars, partVars, provider, pipeline, storeVars, asyncLocals, req,
                   resp, audioData, audioUrls, contents, activePoolKeys, usingUserKey,
                   currentPoolKeyIndex, phase, rot, poolKeyId, modelIndex, evaluationRaw,
                   lastError, callResult>>

\* continue: the next model, or the end of the loop, where tryGeminiWithKey
\* returns false.
PartNextModel ==
    IF modelIndex < NumInlineModels
    THEN /\ modelIndex' = modelIndex + 1
         /\ inlinePc' = "call"
         /\ UNCHANGED callResult
    ELSE /\ modelIndex' = 0
         /\ callResult' = CallResult(FALSE, FALSE)
         /\ inlinePc' = "rotate"

\* return from tryGeminiWithKey.
PartReturn(success) ==
    /\ callResult' = CallResult(success, FALSE)
    /\ modelIndex' = 0
    /\ inlinePc' = "rotate"

\* tryGeminiWithKey, lines 397-460: the outcome of the fetch.
PartHandleResponse ==
    /\ inlinePc = "await"
    /\ inFlight' = inFlight - 1
    /\ \E o \in InlineAnswers :
        LET errorInfo == classifyGeminiError_part(o.httpStatus, o.body)
            keyId == poolKeyId
        IN
        IF o.kind = "error"
        THEN /\ lastError' = errorInfo
             /\ UNCHANGED evaluationRaw
             /\ IF keyId # UserKeyId /\ errorInfo.isInvalidKey
                THEN /\ pool' = incrementKeyErrorCount_part(pool, keyId, TRUE)
                     /\ PartReturn(FALSE)
                     /\ UNCHANGED userKeyFailed
                ELSE IF keyId # UserKeyId /\ (errorInfo.isQuota \/ errorInfo.isRateLimit)
                THEN /\ pool' = incrementKeyErrorCount_part(
                                    markKeyQuotaExhausted(pool, keyId), keyId, FALSE)
                     /\ PartReturn(FALSE)
                     /\ UNCHANGED userKeyFailed
                ELSE IF usingUserKey /\ (errorInfo.isQuota \/ errorInfo.isRateLimit)
                THEN /\ userKeyFailed' = TRUE
                     /\ PartReturn(FALSE)
                     /\ UNCHANGED pool
                ELSE IF usingUserKey /\ errorInfo.isInvalidKey
                THEN /\ PartReturn(FALSE)
                     /\ UNCHANGED <<pool, userKeyFailed>>
                ELSE PartNextModel /\ UNCHANGED <<pool, userKeyFailed>>
        ELSE IF o.kind = "ok"
        THEN IF o.text # "empty" /\ parseJsonFromResponse(o.text) # "null"
             THEN /\ evaluationRaw' = parseJsonFromResponse(o.text)
                  /\ pool' = IF keyId # UserKeyId
                             THEN resetKeyErrorCount_part(pool, keyId)
                             ELSE pool
                  /\ PartReturn(TRUE)
                  /\ UNCHANGED <<lastError, userKeyFailed>>
             ELSE PartNextModel /\ UNCHANGED <<pool, lastError, evaluationRaw, userKeyFailed>>
        ELSE PartNextModel /\ UNCHANGED <<pool, lastError, evaluationRaw, userKeyFailed>>
    /\ UNCHANGED <<hookVars, readVars, repairVars, parseVars, shapeVars, writerVars, classifyVars, runVars, userKey, asyncLocals, req, resp, providerCalled,
                   audioData, audioUrls, contents, activePoolKeys, usingUserKey,
                   currentPoolKeyIndex, phase, rot, poolKeyId>>

\* Enter tryGeminiWithKey with the pool key at a (0-based) index.
PartCallPoolKey(index) ==
    /\ currentPoolKeyIndex' = index
    /\ poolKeyId' = PoolKeyAt(index)
    /\ modelIndex' = 1
    /\ inlinePc' = "call"

\* The number of pool keys the rotation loop of the part pipeline visits.
PartRotationEnd == IF Len(activePoolKeys) < PartMaxPoolKeys
                   THEN Len(activePoolKeys) ELSE PartMaxPoolKeys

\* serve, lines 466-494: after the user's key hit quota fall back to the first
\* pool key; then rotate over the pool keys, from index 1 after a fallback and
\* from index 0 otherwise, up to Math.min(poolKeys.length, 3).
PartRotate ==
    /\ inlinePc = "rotate"
    /\ LET n == Len(activePoolKeys)
           start == IF userKeyFailed THEN 1 ELSE 0
       IN
       IF phase = "first" /\ ~callResult.success /\ userKeyFailed /\ n > 0
       THEN /\ usingUserKey' = FALSE
            /\ phase' = "fallback"
            /\ PartCallPoolKey(0)
            /\ UNCHANGED rot
       ELSE IF /\ phase \in {"first", "fallback"} /\ ~callResult.success /\ ~usingUserKey
               /\ n > 0 /\ start < PartRotationEnd
       THEN /\ phase' = "rotate"
            /\ rot' = start
            /\ PartCallPoolKey(start)
            /\ UNCHANGED usingUserKey
       ELSE IF phase = "rotate" /\ rot + 1 < PartRotationEnd /\ ~callResult.success
       THEN /\ rot' = rot + 1
            /\ PartCallPoolKey(rot + 1)
            /\ UNCHANGED <<usingUserKey, phase>>
       ELSE /\ inlinePc' = "respond"
            /\ UNCHANGED <<usingUserKey, currentPoolKeyIndex, phase, rot, poolKeyId,
                           modelIndex>>
    /\ UNCHANGED <<hookVars, readVars, repairVars, parseVars, shapeVars, writerVars, classifyVars, partVars, runVars, storeVars, asyncLocals, req, resp,
                   inFlight, providerCalled, audioData, audioUrls, contents,
                   activePoolKeys, evaluationRaw, lastError, callResult>>

\* serve, lines 496-538: without an evaluation answer 500 with the last error;
\* with one, build the part result and answer 200.
PartRespond ==
    /\ inlinePc = "respond"
    /\ inlinePc' = "done"
    /\ resp' = IF evaluationRaw = "null" THEN "500" ELSE "200"
    /\ UNCHANGED <<hookVars, readVars, repairVars, parseVars, shapeVars, writerVars, classifyVars, partVars, runVars, storeVars, asyncLocals, req, inFlight,
                   providerCalled, audioData, audioUrls, contents, activePoolKeys,
                   usingUserKey, currentPoolKeyIndex, phase, rot, poolKeyId, modelIndex,
                   evaluationRaw, lastError, callResult>>

NextPart ==
    \/ PartLoadKeys
    \/ PartValidate
    \/ PartUpload
    \/ PartBuildContents
    \/ PartProviderCall
    \/ PartHandleResponse
    \/ PartRotate
    \/ PartRespond

\* One request with every payload usable, from a caller whose key is on record.
InitRequestWith(scripts) ==
    /\ InitClassifyIdle
    /\ pool \in [PoolKeys -> KeyStates]
    /\ userKey = "ok"
    /\ InitJobIdle
    /\ req \in {"unauth", "bad", "ok"}
    /\ provider \in scripts
    /\ inlinePc = "keys"
    /\ audioData = [k \in Segments |-> MinBase64Len + 1]
    /\ audioUrls = {}
    /\ contents = [k \in Segments |-> "none"]
    /\ activePoolKeys = <<>>
    /\ usingUserKey = FALSE
    /\ currentPoolKeyIndex = 0
    /\ phase = "none"
    /\ rot = 0
    /\ poolKeyId = UserKeyId
    /\ modelIndex = 0
    /\ evaluationRaw = "null"
    /\ lastError = NoError
    /\ callResult = CallResult(FALSE, FALSE)

InitRequest == InitRequestWith({"any"})

\* The request is served by one of the three pipelines.
InitPipelines ==
    /\ InitRequest
    /\ pipeline \in {"async", "full", "part"}

NextPipelines ==
    \/ pipeline = "async" /\ Next
    \/ pipeline = "full" /\ NextInline
    \/ pipeline = "part" /\ NextPart

SpecPipelines == InitPipelines /\ [][NextPipelines]_vars

\* The same request with a provider that may answer every call with one
\* kind of error.
InitScripted ==
    /\ InitRequestWith({"any", "all404", "allQuota", "allInvalidKey"})
    /\ pipeline \in {"async", "full", "part"}

SpecScripted == InitScripted /\ [][NextPipelines]_vars

\* The same request with a provider whose responses may all be malformed.
InitMalformed ==
    /\ InitRequestWith({"any", "allMalformed"})
    /\ pipeline \in {"async", "full", "part"}

SpecMalformed == InitMalformed /\ [][NextPipelines]_vars

\* The same request with a provider that may never answer, served to its end
\* by a host that does not end the background task.
InitCalls ==
    /\ InitRequestWith({"any", "silent"})
    /\ pipeline \in {"async", "full", "part"}

NextCalls ==
    \/ pipeline = "async" /\ Progress
    \/ pipeline = "full" /\ NextInline
    \/ pipeline = "part" /\ NextPart

FairCalls == InitCalls /\ [][NextCalls]_vars /\ WF_vars(NextCalls)

(***************************************************************************)
(* Concurrent requests writing to one credential store                     *)
(***************************************************************************)

\* The store operations of the pipelines: markKeyQuotaExhausted (markExhausted),
\* incrementKeyErrorCount with deactivate (markInvalid), incrementKeyErrorCount
\* (recordFailure) and resetKeyErrorCount (recordSuccess).
WriterOps == {"markExhausted", "markInvalid", "recordFailure", "recordSuccess"}

\* The variables the store writers leave alone.
requestVars == <<hookVars, readVars, repairVars, parseVars, shapeVars, classifyVars, partVars, runVars, userKey, jobVars, serveVars, workerVars,
                 terminalWrites,
                 inlineVars>>

\* The pool credential the concurrent requests are all using.
SharedKey == CHOOSE keyId \in PoolKeys : TRUE

\* The store operations begun by a set of writers.
RECURSIVE StoreCalls(_)
StoreCalls(S) ==
    IF S = {} THEN 0
    ELSE LET w == CHOOSE x \in S : TRUE IN writers[w].calls + StoreCalls(S \ {w})

\* A request reaches a store operation on the shared pool key.
WriterBegin(w) ==
    /\ writers[w].pc = "idle"
    /\ StoreCalls(Writers) < MaxStoreCalls
    /\ \E op \in WriterOps :
        writers' = [writers EXCEPT ![w].pc = "start", ![w].op = op, ![w].key = SharedKey,
                                  ![w].calls = @ + 1]
    /\ UNCHANGED <<requestVars, pool, flagWritten, deactivated>>

\* A store operation of a writer has returned.
WriterDone(w) ==
    [writers EXCEPT ![w].pc = "idle"]

\* markKeyQuotaExhaustedForFlash: one update of the exhaustion flag.
WriterMarkExhausted(w) ==
    /\ writers[w].pc = "start" /\ writers[w].op = "markExhausted"
    /\ pool' = markKeyQuotaExhaustedForFlash(pool, writers[w].key)
    /\ flagWritten' = flagWritten \cup {writers[w].key}
    /\ writers' = WriterDone(w)
    /\ UNCHANGED <<requestVars, deactivated>>

\* incrementKeyErrorCount(client, keyId, true): one update of is_active.
WriterMarkInvalid(w) ==
    /\ writers[w].pc = "start" /\ writers[w].op = "markInvalid"
    /\ pool' = incrementKeyErrorCount(pool, writers[w].key, TRUE)
    /\ deactivated' = deactivated \cup {writers[w].key}
    /\ writers' = WriterDone(w)
    /\ UNCHANGED <<requestVars, flagWritten>>

\* incrementKeyErrorCount(client, keyId, false), lines 116-120: the select of
\* error_count.
WriterReadCount(w) ==
    /\ writers[w].pc = "start" /\ writers[w].op = "recordFailure"
    /\ writers' = [writers EXCEPT ![w].pc = "write",
                                  ![w].read = pool[writers[w].key].error_count]
    /\ UNCHANGED <<requestVars, pool, flagWritten, deactivated>>

\* incrementKeyErrorCount(client, keyId, false), lines 122-130: the update of
\* error_count to the value read plus one.
WriterWriteCount(w) ==
    /\ writers[w].pc = "write"
    /\ pool' = [pool EXCEPT ![writers[w].key].error_count = JsOr(writers[w].read, 0) + 1]
    /\ writers' = WriterDone(w)
    /\ UNCHANGED <<requestVars, flagWritten, deactivated>>

\* resetKeyErrorCount: one update of error_count.
WriterRecordSuccess(w) ==
    /\ writers[w].pc = "start" /\ writers[w].op = "recordSuccess"
    /\ pool' = resetKeyErrorCount(pool, writers[w].key)
    /\ writers' = WriterDone(w)
    /\ UNCHANGED <<requestVars, flagWritten, deactivated>>

InitWriters ==
    /\ InitClassifyIdle
    /\ pool \in {p \in [PoolKeys -> KeyStates] :
                    \A keyId \in PoolKeys \ {SharedKey} : p[keyId] = KeyFresh}
    /\ userKey = "none"
    /\ InitJobIdle
    /\ InitInlineIdle
    /\ req = "ok"
    /\ provider = "any"
    /\ pipeline = "none"

NextWriters ==
    \E w \in Writers :
        \/ WriterBegin(w)
        \/ WriterMarkExhausted(w)
        \/ WriterMarkInvalid(w)
        \/ WriterReadCount(w)
        \/ WriterWriteCount(w)
        \/ WriterRecordSuccess(w)

SpecWriters == InitWriters /\ [][NextWriters]_vars

(***************************************************************************)
(* The shaping of a parsed provider response into the result               *)
(***************************************************************************)

\* Entries a questionScores array holds at most.
MaxQuestions == 2

\* The largest question count the provider reports.
MaxCount == 3

\* ensureArray(val)
ensureArray(val) == IF val.t = "array" THEN val.items ELSE <<>>

\* An arrow function that reads properties of each entry raises on an entry
\* that is undefined or null.
RaisesOnEntries(items) == \E i \in 1 .. Len(items) : Nullish(items[i])

\* questionScores.reduce((sum, qs) => sum + (qs.score ?? 0), 0)
RECURSIVE SumScores(_)
SumScores(items) ==
    IF items = <<>> THEN 0
    ELSE Coalesce(Get(Head(items), "score"), Num(0)).v + SumScores(Tail(items))

\* The overall band without the check against the average question score.
NormalizedOverallBand_noSanityCheck(data) ==
    LET questionScores == ensureArray(data.questionScores)
        minimalResponseCount == Coalesce(data.minimalResponseCount, Num(0)).v
        totalQuestionCount == Coalesce(data.totalQuestionCount, Num(Len(questionScores))).v
        overallBand == Coalesce(Coalesce(data.overallBand, data.overall_band), Num(0)).v
        total == IF totalQuestionCount > 1 THEN totalQuestionCount ELSE 1
        maxAllowedBand == IF 2 * minimalResponseCount > total THEN 8
                          ELSE IF 10 * minimalResponseCount > 3 * total THEN 10
                          ELSE 18
    IN
    IF Len(questionScores) > 0
    THEN (IF overallBand > maxAllowedBand THEN maxAllowedBand ELSE overallBand)
    ELSE overallBand

\* The overall band with the cap assigned whenever a cap applies, instead of
\* only when the band exceeds it.
NormalizedOverallBand_capAssigned(data) ==
    LET questionScores == ensureArray(data.questionScores)
        minimalResponseCount == Coalesce(data.minimalResponseCount, Num(0)).v
        totalQuestionCount == Coalesce(data.totalQuestionCount, Num(Len(questionScores))).v
        overallBand == Coalesce(Coalesce(data.overallBand, data.overall_band), Num(0)).v
        total == IF totalQuestionCount > 1 THEN totalQuestionCount ELSE 1
        maxAllowedBand == IF 2 * minimalResponseCount > total THEN 8
                          ELSE IF 10 * minimalResponseCount > 3 * total THEN 10
                          ELSE 18
        capped == IF maxAllowedBand < 18 THEN maxAllowedBand ELSE overallBand
        n == Len(questionScores)
        sum == SumScores(questionScores)
        adjustedBand == (2 * sum + 5 * n) \div (2 * n)
    IN
    IF n > 0
    THEN IF capped * n > sum + 3 * n
         THEN (IF capped < adjustedBand THEN capped ELSE adjustedBand)
         ELSE capped
    ELSE overallBand

\* normalizeEvaluationResponse, lines 1176-1212: the overall band after the
\* minimal-response caps and the check against the average question score.
NormalizedOverallBand(data) ==
    LET questionScores == ensureArray(data.questionScores)
        minimalResponseCount == Coalesce(data.minimalResponseCount, Num(0)).v
        totalQuestionCount == Coalesce(data.totalQuestionCount, Num(Len(questionScores))).v
        overallBand == Coalesce(Coalesce(data.overallBand, data.overall_band), Num(0)).v
        total == IF totalQuestionCount > 1 THEN totalQuestionCount ELSE 1
        \* minimalRatio > 0.5, minimalRatio > 0.3
        maxAllowedBand == IF 2 * minimalResponseCount > total THEN 8
                          ELSE IF 10 * minimalResponseCount > 3 * total THEN 10
                          ELSE 18
        capped == IF overallBand > maxAllowedBand THEN maxAllowedBand ELSE overallBand
        n == Len(questionScores)
        sum == SumScores(questionScores)
        \* Math.round((avgQuestionScore + 1.0) * 2) / 2
        adjustedBand == (2 * sum + 5 * n) \div (2 * n)
    IN
    IF n > 0
    THEN \* overallBand > avgQuestionScore + 1.5
         IF capped * n > sum + 3 * n
         THEN (IF capped < adjustedBand THEN capped ELSE adjustedBand)
         ELSE capped
    ELSE overallBand

\* normalizeCriterion(camelKey, snakeKey)
normalizeCriterion(data, camelKey, snakeKey) ==
    LET val == Coalesce(Coalesce(data[camelKey], data[snakeKey]),
                        Criterion(Num(0), Str("")))
    IN Criterion(Coalesce(Get(val, "score"), Num(0)),
                 Coalesce(Get(val, "feedback"), Str("")))

\* normalizeEvaluationResponse(data)
normalizeEvaluationResponse(data) ==
    IF \/ RaisesOnEntries(ensureArray(data.questionScores))
       \/ RaisesOnEntries(ensureArray(data.partAnalysis))
       \/ RaisesOnEntries(ensureArray(data.modelAnswers))
    THEN Raised
    ELSE [t |-> "object",
          overall_band |-> Num(NormalizedOverallBand(data)),
          fluency_coherence |-> normalizeCriterion(data, "fluencyCoherence", "fluency_coherence"),
          lexical_resource |-> normalizeCriterion(data, "lexicalResource", "lexical_resource"),
          grammatical_range |-> normalizeCriterion(data, "grammaticalRange", "grammatical_range"),
          pronunciation |->
              Criterion(Coalesce(Get(Coalesce(data.pronunciation, PlainObject), "score"), Num(0)),
                        Coalesce(Get(Coalesce(data.pronunciation, PlainObject), "feedback"),
                                 Str("")))]

\* evaluate-ai-speaking-part, lines 514-531: partResult; .map of a value that
\* is truthy and not an array is not reached (normalizeModelAnswers returns []).
partResult(data) ==
    IF RaisesOnEntries(ensureArray(Or(data.modelAnswers, Arr(<<>>))))
    THEN Raised
    ELSE [t |-> "object",
          fluency_coherence |-> Or(data.fluencyCoherence, Criterion(Num(0), Str(""))),
          lexical_resource |-> Or(data.lexicalResource, Criterion(Num(0), Str(""))),
          grammatical_range |-> Or(data.grammaticalRange, Criterion(Num(0), Str(""))),
          pronunciation |-> Or(data.pronunciation, Criterion(Num(0), Str("")))]

\* scores.reduce((a, b) => a + b, 0)
RECURSIVE SumOver(_, _)
SumOver(f, S) ==
    IF S = {} THEN 0
    ELSE LET x == CHOOSE y \in S : TRUE IN f[x] + SumOver(f, S \ {x})

\* The criteria object of the async job's response schema, lines 448-453.
Criteria(fc, lr, gr, pr) ==
    [t |-> "object", fluency_coherence |-> fc, lexical_resource |-> lr,
     grammatical_range |-> gr, pronunciation |-> pr]

\* A criterion of the async job's response schema.
BandCriterion(band, feedback) == [t |-> "object", band |-> band, feedback |-> feedback]

\* x?.name
GetOptional(x, name) == IF Nullish(x) THEN Undefined ELSE Get(x, name)

\* calculateBand(result), lines 942-947, in half bands: 6.0 without criteria
\* or without a truthy band, otherwise the mean of the truthy bands rounded
\* to the nearest half band.
calculateBand(data) ==
    LET c == data.criteria
        bands == {name \in {"fluency_coherence", "lexical_resource", "grammatical_range",
                            "pronunciation"} :
                      ~Falsy(GetOptional(Get(c, name), "band"))}
        scores == [name \in bands |-> Get(Get(c, name), "band").v]
        n == Cardinality(bands)
        sum == SumOver(scores, bands)
    IN IF Falsy(c) \/ n = 0 THEN 12 ELSE (2 * sum + n) \div (2 * n)

\* runEvaluation, lines 874-889: the row of ai_practice_results: band_score,
\* and question_results: result, the parsed response as it is.
questionResults(data) ==
    [t |-> "object",
     band_score |-> Or(data.overall_band, Num(calculateBand(data))),
     question_results |-> data]

\* Values the provider may put where a criterion is expected.
CriterionInputs ==
    {Undefined, Null, Num(0), Num(12), Str("text")}
        \cup {Criterion(sc, fb) : sc \in {Undefined, Null, Num(12)},
                                  fb \in {Undefined, Null, Str("text")}}

\* Values the provider may put where an array of objects is expected.
ArrayInputs == {Undefined, Num(12), Arr(<<>>), Arr(<<Null>>), Arr(<<PlainObject>>)}

\* Values of an entry of questionScores.
QuestionScoreInputs == {Null, QuestionScore(Undefined), QuestionScore(Num(4)),
                        QuestionScore(Num(12)), QuestionScore(Num(18))}

\* Values of questionScores.
QuestionScoresInputs ==
    {Undefined, Null, Num(12)}
        \cup {Arr(q) : q \in UNION {[1 .. n -> QuestionScoreInputs] : n \in 0 .. MaxQuestions}}

\* Values of the two question counts.
CountInputs == {Undefined} \cup {Num(n) : n \in 0 .. MaxCount}

\* Responses that differ in the fields the overall band is computed from.
BandInputs ==
    {[EmptyObject EXCEPT !.overallBand = ob, !.overall_band = ob2, !.questionScores = qs,
                         !.minimalResponseCount = mc, !.totalQuestionCount = tc] :
        ob \in {Undefined, Null, Num(0), Num(8), Num(9), Num(10), Num(11), Num(18)},
        ob2 \in {Undefined, Num(18)},
        qs \in QuestionScoresInputs, mc \in CountInputs, tc \in CountInputs}

\* Responses that differ in the shape of the criteria and of the arrays.
ShapeInputs ==
    {[EmptyObject EXCEPT !.overallBand = Num(12),
                         !.fluencyCoherence = fc, !.fluency_coherence = fc2,
                         !.lexicalResource = lr, !.grammaticalRange = gr,
                         !.pronunciation = pr, !.partAnalysis = pa, !.modelAnswers = ma] :
        fc \in CriterionInputs, fc2 \in {Undefined, Criterion(Num(12), Str("text"))},
        lr \in {Undefined, Criterion(Num(12), Str("text"))},
        gr \in {Undefined, Criterion(Num(12), Undefined)},
        pr \in {Undefined, Null, Num(12), Criterion(Num(12), Str("text"))},
        pa \in ArrayInputs, ma \in ArrayInputs}

\* Values of a criterion of the async job's response.
BandCriterionInputs == {Undefined, BandCriterion(Num(13), Str("text")),
                        BandCriterion(Num(12), Undefined), BandCriterion(Undefined, Str("text"))}

\* Responses to the async job's prompt.
AsyncInputs ==
    {[EmptyObject EXCEPT !.overall_band = ob, !.criteria = c] :
        ob \in {Undefined, Num(0), Num(13)},
        c \in {Undefined, Null}
                \cup {Criteria(fc, lr, gr, pr) :
                          fc \in BandCriterionInputs, lr \in BandCriterionInputs,
                          gr \in BandCriterionInputs, pr \in BandCriterionInputs}}

\* evaluate-ai-speaking serve, line 733: the parsed response is normalized.
NormalizeFull ==
    /\ shaped = NotShaped
    /\ shaped' = [by |-> "full", value |-> normalizeEvaluationResponse(raw)]
    /\ UNCHANGED <<hookVars, readVars, repairVars, parseVars, writerVars, classifyVars, partVars, runVars, storeVars,
                   jobVars, serveVars, workerVars, terminalWrites, inlineVars, raw>>

\* evaluate-ai-speaking-part serve, lines 514-531: the part result is built.
ShapePart ==
    /\ shaped = NotShaped
    /\ shaped' = [by |-> "part", value |-> partResult(raw)]
    /\ UNCHANGED <<hookVars, readVars, repairVars, parseVars, writerVars, classifyVars, partVars, runVars, storeVars,
                   jobVars, serveVars, workerVars, terminalWrites, inlineVars, raw>>

\* evaluate-speaking-async runEvaluation, lines 876-889: the result row is
\* inserted with the parsed response.
ShapeAsync ==
    /\ shaped = NotShaped
    /\ shaped' = [by |-> "async", value |-> questionResults(raw)]
    /\ UNCHANGED <<hookVars, readVars, repairVars, parseVars, writerVars, classifyVars, partVars, runVars, storeVars,
                   jobVars, serveVars, workerVars, terminalWrites, inlineVars, raw>>

InitNormalize ==
    /\ InitClassifyIdle
    /\ pool = [keyId \in PoolKeys |-> KeyFresh]
    /\ userKey = "none"
    /\ InitRunIdle
    /\ InitInlineIdle
    /\ req = "ok"
    /\ provider = "any"
    /\ pipeline = "none"
    /\ raw \in BandInputs \cup ShapeInputs \cup AsyncInputs
    /\ shaped = NotShaped
    /\ canonical = <<>>
    /\ responseText = <<>>
    /\ parsed = NotParsed

NextNormalize == NormalizeFull \/ ShapePart \/ ShapeAsync

SpecNormalize == InitNormalize /\ [][NextNormalize]_vars

(***************************************************************************)
(* The parsing of the provider's text. A text is a sequence of tokens:     *)
(* the two code fences, the punctuation of JSON, "k" for a key            *)
(* with its colon, and scalars; white space is left out.                   *)
(***************************************************************************)

\* "s" is a scalar; "s,}" is a string whose content holds a comma followed
\* by a closing brace, and "s}" the same string without the comma.
Scalars == {"s", "s,}", "s}"}

\* The opening fence with its language tag, and the bare fence.
Fences == {"fence json", "fence"}

\* What a parser returns when it gives up.
ParsedNull == <<"null">>

\* JSON.parse raised.
SyntaxError == <<"SyntaxError">>

RECURSIVE ValueEnd(_, _), ElementsEnd(_, _, _), MembersEnd(_, _, _)
\* The position after the JSON value that starts at position i, 0 if none does.
ValueEnd(t, i) ==
    IF i > Len(t) THEN 0
    ELSE IF t[i] \in Scalars THEN i + 1
    ELSE IF t[i] = "[" THEN ElementsEnd(t, i + 1, TRUE)
    ELSE IF t[i] = "{" THEN MembersEnd(t, i + 1, TRUE)
    ELSE 0

\* The position after the "]" that closes the array whose next element starts at i.
ElementsEnd(t, i, first) ==
    IF i > Len(t) THEN 0
    ELSE IF first /\ t[i] = "]" THEN i + 1
    ELSE LET e == ValueEnd(t, i) IN
         IF e = 0 \/ e > Len(t) THEN 0
         ELSE IF t[e] = "]" THEN e + 1
         ELSE IF t[e] = "," THEN ElementsEnd(t, e + 1, FALSE)
         ELSE 0

\* The position after the "}" that closes the object whose next member starts at i.
MembersEnd(t, i, first) ==
    IF i > Len(t) THEN 0
    ELSE IF first /\ t[i] = "}" THEN i + 1
    ELSE IF t[i] # "k" THEN 0
    ELSE LET e == ValueEnd(t, i + 1) IN
         IF e = 0 \/ e > Len(t) THEN 0
         ELSE IF t[e] = "}" THEN e + 1
         ELSE IF t[e] = "," THEN MembersEnd(t, e + 1, FALSE)
         ELSE 0

\* JSON.parse(text): the value, named by the tokens of its serialization, when
\* the whole text is one JSON value; a SyntaxError otherwise.
JSONparse(t) == IF ValueEnd(t, 1) = Len(t) + 1 THEN t ELSE SyntaxError

\* The tokens of t at the positions in keep, in order, from position i on.
RECURSIVE Keep(_, _, _)
Keep(t, keep, i) ==
    IF i > Len(t) THEN <<>>
    ELSE (IF i \in keep THEN <<t[i]>> ELSE <<>>) \o Keep(t, keep, i + 1)

\* The two replace calls that delete every code fence, with or without tag.
RemoveFences(t) == SelectSeq(t, LAMBDA tok : tok \notin Fences)

\* text.match(/\{[\s\S]*\}/): from the first "{" to the last "}", or no match.
ObjectMatch(t) ==
    LET opens == {i \in 1 .. Len(t) : t[i] = "{"}
        first == CHOOSE i \in opens : \A j \in opens : i <= j
        closes == {i \in 1 .. Len(t) : t[i] = "}" /\ i > first}
        last == CHOOSE i \in closes : \A j \in closes : j <= i
    IN IF opens = {} \/ closes = {} THEN <<>> ELSE SubSeq(t, first, last)

\* The match of a fenced block (lazy): what stands between the first
\* fence and the next one, or no match.
FenceMatch(t) ==
    LET fences == {i \in 1 .. Len(t) : t[i] \in Fences}
        first == CHOOSE i \in fences : \A j \in fences : i <= j
        later == fences \ {first}
        next == CHOOSE i \in later : \A j \in later : i <= j
    IN IF Cardinality(fences) < 2
       THEN [matched |-> FALSE, group |-> <<>>]
       ELSE [matched |-> TRUE, group |-> SubSeq(t, first + 1, next - 1)]

\* jsonStr.replace(/,(\s*[}\]])/g, '$1'): a comma followed by a closing brace
\* or bracket is removed, inside strings too.
RemoveTrailingCommas(t) ==
    LET keep == {i \in 1 .. Len(t) :
                    ~(t[i] = "," /\ i < Len(t) /\ t[i + 1] \in {"}", "]"})}
        kept == Keep(t, keep, 1)
    IN [i \in 1 .. Len(kept) |-> IF kept[i] = "s,}" THEN "s}" ELSE kept[i]]

\* parseJsonFromResponse of evaluate-ai-speaking, lines 880-922, on tokens.
parseJsonFromResponseText(responseTokens) ==
    IF JSONparse(responseTokens) # SyntaxError THEN JSONparse(responseTokens)
    ELSE LET cleaned == RemoveFences(responseTokens)
             jsonMatch == ObjectMatch(cleaned)
             jsonStr == RemoveTrailingCommas(jsonMatch)
         IN IF jsonMatch # <<>>
            THEN (IF JSONparse(jsonStr) # SyntaxError THEN JSONparse(jsonStr)
                  ELSE ParsedNull)
            ELSE IF JSONparse(cleaned) # SyntaxError THEN JSONparse(cleaned)
            ELSE ParsedNull

\* parseJson of evaluate-speaking-async, lines 933-940, on tokens.
parseJsonText(textTokens) ==
    LET match == FenceMatch(textTokens)
        objMatch == ObjectMatch(textTokens)
    IN IF JSONparse(textTokens) # SyntaxError THEN JSONparse(textTokens)
       ELSE IF match.matched /\ JSONparse(match.group) # SyntaxError
       THEN JSONparse(match.group)
       ELSE IF objMatch # <<>> /\ JSONparse(objMatch) # SyntaxError
       THEN JSONparse(objMatch)
       ELSE ParsedNull

\* parseJsonFromResponse of evaluate-ai-speaking-part, lines 625-634, on tokens.
parseJsonFromResponseText_part(responseTokens) ==
    LET jsonMatch == ObjectMatch(responseTokens)
        parsedValue == IF jsonMatch # <<>> THEN JSONparse(jsonMatch)
                       ELSE JSONparse(responseTokens)
    IN IF parsedValue # SyntaxError THEN parsedValue ELSE ParsedNull

\* JSON.stringify of result objects: a criterion, a criterion and a list, a
\* nested criterion and an empty list, a list of objects, a feedback text
\* with ",}" in it.
CanonicalResults ==
    { <<"{", "k", "s", "}">>,
      <<"{", "k", "s", ",", "k", "[", "s", ",", "s", "]", "}">>,
      <<"{", "k", "{", "k", "s", "}", ",", "k", "[", "]", "}">>,
      <<"{", "k", "[", "{", "k", "s", "}", "]", ",", "k", "s", "}">>,
      <<"{", "k", "s,}", "}">> }

\* The closing braces and brackets of a text that a trailing comma can precede:
\* those that close a container that is not empty.
TrailingCommaPlaces(t) ==
    {i \in 2 .. Len(t) : t[i] \in {"}", "]"} /\ t[i - 1] \notin {"{", "["}}

\* The text with a comma injected before the closing tokens at the places.
RECURSIVE InjectTrailingCommas(_, _, _)
InjectTrailingCommas(t, places, i) ==
    IF i > Len(t) THEN <<>>
    ELSE (IF i \in places THEN <<",", t[i]>> ELSE <<t[i]>>)
             \o InjectTrailingCommas(t, places, i + 1)

\* The text wrapped in a markdown code fence, or as it is.
Fenced(t, fence) == IF fence = "none" THEN t ELSE <<fence>> \o t \o <<"fence">>

\* The provider's text for a canonical result.
ProviderTexts(t) ==
    {Fenced(InjectTrailingCommas(t, places, 1), fence) :
        places \in SUBSET TrailingCommaPlaces(t), fence \in Fences \cup {"none"}}

\* The text is fenced and has a trailing comma.
FencedWithTrailingCommas ==
    /\ responseText # <<>>
    /\ Head(responseText) \in Fences
    /\ RemoveFences(responseText) # canonical

\* evaluate-ai-speaking callGemini: parseJsonFromResponse(responseText).
ParseFull ==
    /\ parsed = NotParsed
    /\ parsed' = [by |-> "full", value |-> parseJsonFromResponseText(responseText)]
    /\ UNCHANGED <<hookVars, readVars, repairVars, shapeVars, writerVars, classifyVars, partVars, runVars, storeVars,
                   jobVars, serveVars, workerVars, terminalWrites, inlineVars,
                   canonical, responseText>>

\* evaluate-speaking-async runEvaluation: parseJson(text).
ParseAsync ==
    /\ parsed = NotParsed
    /\ parsed' = [by |-> "async", value |-> parseJsonText(responseText)]
    /\ UNCHANGED <<hookVars, readVars, repairVars, shapeVars, writerVars, classifyVars, partVars, runVars, storeVars,
                   jobVars, serveVars, workerVars, terminalWrites, inlineVars,
                   canonical, responseText>>

\* evaluate-ai-speaking-part tryGeminiWithKey: parseJsonFromResponse(responseText).
ParsePart ==
    /\ parsed = NotParsed
    /\ parsed' = [by |-> "part", value |-> parseJsonFromResponseText_part(responseText)]
    /\ UNCHANGED <<hookVars, readVars, repairVars, shapeVars, writerVars, classifyVars, partVars, runVars, storeVars,
                   jobVars, serveVars, workerVars, terminalWrites, inlineVars,
                   canonical, responseText>>

InitParse ==
    /\ InitClassifyIdle
    /\ pool = [keyId \in PoolKeys |-> KeyFresh]
    /\ userKey = "none"
    /\ InitShapeIdle
    /\ InitInlineIdle
    /\ req = "ok"
    /\ provider = "any"
    /\ pipeline = "none"
    /\ canonical \in CanonicalResults
    /\ responseText \in ProviderTexts(canonical)
    /\ parsed = NotParsed

NextParse == ParseFull \/ ParseAsync \/ ParsePart

SpecParse == InitParse /\ [][NextParse]_vars

(***************************************************************************)
(* The transcript repair pass: retryTranscriptionForNoSpeech               *)
(***************************************************************************)

\* A key the transcripts map does not have, or a key the repair response lacks.
NoEntry == "<no entry>"

\* The sentinel the provider writes for a silent clip.
NoSpeech == "No speech detected"

\* durations[k] is not a number.
NoDuration == -1

\* The shortest clip (tenths of a second) the pass of evaluate-ai-speaking retries.
RetryMinDuration == 3

\* The shortest clip (tenths of a second) the pass of evaluate-ai-speaking-part retries.
RetryMinDuration_part == 7

\* keysToRetry.slice(0, 8)
MaxRetryKeys == 8

\* modelsToTry: the preferred model and the fallback order.
NumRepairModels == NumInlineModels + 1

\* String(t ?? '').trim().toLowerCase()
TrimLower(t) ==
    IF t \in {NoEntry, "", "  "} THEN ""
    ELSE IF t = NoSpeech THEN "no speech detected"
    ELSE t

\* String(t ?? '').trim()
Trim(t) == IF t \in {NoEntry, "", "  "} THEN "" ELSE t

\* The filter of keysToRetry, lines 1293-1306: the keys of the map whose
\* transcript is empty or the sentinel, with audio of at least 100 base64
\* characters and a duration that is unknown or at least the threshold.
KeysToRetry(map, audio, dur, threshold) ==
    {k \in Segments :
        /\ map[k] # NoEntry
        /\ TrimLower(map[k]) \in {"no speech detected", ""}
        /\ ~(audio[k] < MinBase64Len)
        /\ (dur[k] = NoDuration \/ dur[k] >= threshold)}

\* The first n elements of a set of segments, in the order of the keys.
RECURSIVE FirstKeys(_, _)
FirstKeys(S, n) ==
    IF S = {} \/ n = 0 THEN <<>>
    ELSE LET k == CHOOSE x \in S : \A y \in S : x <= y
         IN <<k>> \o FirstKeys(S \ {k}, n - 1)

\* A variant that takes every candidate of the response, sent or not.
ApplyTranscripts_allKeys(map, keys, newMap) ==
    [k \in Segments |->
        IF Trim(newMap[k]) # "" THEN Trim(newMap[k]) ELSE map[k]]

\* The loop of lines 1379-1386: a key sent to the repair call takes the
\* candidate of the response when that is not empty after trimming.
ApplyTranscripts(map, keys, newMap) ==
    [k \in Segments |->
        IF (\E i \in 1 .. Len(keys) : keys[i] = k) /\ Trim(newMap[k]) # ""
        THEN Trim(newMap[k])
        ELSE map[k]]

\* What a repair call comes back with: an error status, a timeout or another
\* raised error, a response without text, a text that is not JSON, JSON
\* without a transcripts object, or a transcripts object.
RepairOutcomes ==
    [kind : {"error", "timeout", "throw", "empty", "unparseable", "noTranscripts"},
     newMap : {<<>>}]
    \cup [kind : {"transcripts"},
          newMap : [Segments -> {NoEntry, "  ", "repaired"}]]

\* lines 1293-1311 (part: 799-817): nothing to retry returns the map; else the
\* first eight keys are sent.
RepairSelect ==
    /\ repairPc = "select"
    /\ pipeline \in {"full", "part"}
    /\ LET keysToRetry == KeysToRetry(transcriptsMap, clips, durations,
                              IF pipeline = "full" THEN RetryMinDuration
                              ELSE RetryMinDuration_part)
       IN IF keysToRetry = {}
          THEN /\ repairPc' = "nothing"
               /\ UNCHANGED <<limitedKeys, repairModel>>
          ELSE /\ limitedKeys' = FirstKeys(keysToRetry, MaxRetryKeys)
               /\ repairModel' = 1
               /\ repairPc' = "call"
    /\ UNCHANGED <<hookVars, readVars, parseVars, shapeVars, writerVars, classifyVars, partVars, runVars,
                   storeVars, jobVars, serveVars, workerVars, terminalWrites, inlineVars,
                   transcriptsMap, transcriptsBefore, clips, durations>>

\* evaluate-speaking-async runEvaluation, lines 873-889: the parsed response
\* is stored; no repair pass is called.
StoreUnrepaired ==
    /\ repairPc = "select"
    /\ pipeline = "async"
    /\ repairPc' = "stored"
    /\ UNCHANGED <<hookVars, readVars, parseVars, shapeVars, writerVars, classifyVars, partVars, runVars,
                   storeVars, jobVars, serveVars, workerVars, terminalWrites, inlineVars,
                   transcriptsMap, transcriptsBefore, clips, durations, limitedKeys,
                   repairModel>>

\* lines 1340-1361: the fetch for the current model.
RepairCall ==
    /\ repairPc = "call"
    /\ repairPc' = "await"
    /\ UNCHANGED <<hookVars, readVars, parseVars, shapeVars, writerVars, classifyVars, partVars, runVars,
                   storeVars, jobVars, serveVars, workerVars, terminalWrites, inlineVars,
                   transcriptsMap, transcriptsBefore, clips, durations, limitedKeys,
                   repairModel>>

\* lines 1363-1400: a transcripts object is applied and ends the loop; every
\* other outcome goes to the next model, and after the last the map is
\* returned.
RepairHandle ==
    /\ repairPc = "await"
    /\ \E o \in RepairOutcomes :
        IF o.kind = "transcripts"
        THEN /\ transcriptsMap' = ApplyTranscripts(transcriptsMap, limitedKeys, o.newMap)
             /\ repairPc' = "repaired"
             /\ UNCHANGED repairModel
        ELSE IF repairModel < NumRepairModels
        THEN /\ repairModel' = repairModel + 1
             /\ repairPc' = "call"
             /\ UNCHANGED transcriptsMap
        ELSE /\ repairPc' = "exhausted"
             /\ UNCHANGED <<transcriptsMap, repairModel>>
    /\ UNCHANGED <<hookVars, readVars, parseVars, shapeVars, writerVars, classifyVars, partVars, runVars,
                   storeVars, jobVars, serveVars, workerVars, terminalWrites, inlineVars,
                   transcriptsBefore, clips, durations, limitedKeys>>

\* The transcripts of the first pass, the submitted audio and its durations.
InitRepair ==
    /\ InitClassifyIdle
    /\ pool = [keyId \in PoolKeys |-> KeyFresh]
    /\ userKey = "none"
    /\ InitCoreIdle
    /\ raw = EmptyObject /\ shaped = NotShaped
    /\ canonical = <<>> /\ responseText = <<>> /\ parsed = NotParsed
    /\ InitInlineIdle
    /\ req = "ok"
    /\ provider = "any"
    /\ pipeline \in {"full", "part", "async"}
    /\ transcriptsMap \in [Segments -> {NoEntry, "  ", NoSpeech, "hello"}]
    /\ transcriptsBefore = transcriptsMap
    /\ clips \in [Segments -> {MinBase64Len - 1, MinBase64Len}]
    /\ durations \in [Segments -> {NoDuration, RetryMinDuration - 1, RetryMinDuration, 21}]
    /\ limitedKeys = <<>>
    /\ repairPc = "select"
    /\ repairModel = 0

NextRepair == RepairSelect \/ StoreUnrepaired \/ RepairCall \/ RepairHandle

SpecRepair == InitRepair /\ [][NextRepair]_vars

(***************************************************************************)
(* Claims about the asynchronous job                                       *)
(***************************************************************************)

NonTerminal == {"pending", "processing"}

\* C1: every submitted job eventually reaches completed or failed, also when
\* the background execution is killed or a whole-job retry has reset the job
\* to pending.
C1_EveryJobEventuallyTerminal ==
    (status \in NonTerminal) ~> (status \in Terminal)

AllowedTransitions ==
    {<<"none", "pending">>, <<"pending", "processing">>, <<"processing", "completed">>,
     <<"processing", "failed">>, <<"processing", "pending">>}

\* C2: every change of a job's status is pending->processing,
\* processing->completed, processing->failed or processing->pending (after the
\* creating insert), and completed and failed never change again, whichever
\* actor writes the row.
C2_MonotonicStatusWalk ==
    [][/\ status' # status => <<status, status'>> \in AllowedTransitions
       /\ status \in Terminal => status' = status]_vars

\* An error text that reports a timeout.
TimeoutShaped(e) == e \in {"Evaluation timed out"}

\* C3: a job whose background execution stops updating it is moved to failed
\* with a timeout-shaped error, and no job is written both completed and failed.
C3_WatchdogFailsStrandedJob ==
    /\ (workerPc = "killed" /\ status \in NonTerminal)
           ~> (status = "failed" /\ TimeoutShaped(last_error))
    /\ [](terminalWrites # {"completed", "failed"})

\* C4: the job row exists with status pending before any background step runs,
\* and the 202 response is produced while the job is still pending, without a
\* background step having completed.
C4_SubmitReturnsWhilePending ==
    /\ [](workerPc # "idle" => status # "none")
    /\ [](resp = "202" => status # "none")
    /\ [][(resp = "none" /\ resp' = "202") =>
            (status = "pending" /\ status' = "pending" /\ workerPc = "idle"
             /\ workerPc' = "markProcessing")]_vars

\* C4 witness: the 202 response is out while the job is pending and the
\* background task has not completed its first step.
C4_Witness ==
    resp = "202" /\ status = "pending" /\ workerPc = "markProcessing"

\* C5: an error raised during background execution leaves the job failed
\* with last_error set to the error's text once the background task has ended.
C5_ErrorLeavesJobFailed ==
    (workerPc = "done" /\ thrown # "none") =>
        (status = "failed" /\ last_error = thrown)

\* C6: the processing->pending retry is taken only while retry_count is under
\* max_retries and increments retry_count by exactly one; retry_count never
\* exceeds max_retries; a failure at the ceiling throws instead, into the
\* failed transition.
C6_RetryBoundedByCeiling ==
    /\ [][(status = "processing" /\ status' = "pending") =>
            (retry_count < max_retries /\ retry_count' = retry_count + 1
             /\ last_error' = "All models failed")]_vars
    /\ [](status # "none" => retry_count <= max_retries)
    /\ [][(workerPc = "afterLoop" /\ result = "null"
           /\ workerPc' \notin {"afterLoop", "killed"}
           /\ ~(job.retry_count + 1 < job.max_retries)) =>
            (workerPc' = "catch" /\ thrown' = "Evaluation failed after all retries")]_vars

\* C7: a completed job has a non-null result reference to a persisted result.
C7_CompletedHasResult ==
    status = "completed" => (result_id # "null" /\ result_id \in resultRows)

\* No usable user key and no active, non-exhausted pool key.
NoCredential == userKey # "ok" /\ ActiveGeminiKeysForModel(pool) = {}

\* C8: with no credential available at submission the submission is rejected:
\* no job is accepted and no provider call is made.
C8_NoCredentialRejectedAtSubmit ==
    (NoCredential /\ ~providerCalled) => (status = "none" /\ resp # "202")

\* None of the submitted payloads is usable: each is shorter than the length
\* the pipeline requires of a payload.
NoUsableAudio == \A k \in Segments : audioData[k] < MinBase64Len

\* C9: when none of the submitted segments yields usable audio the request
\* fails at once and no call to the provider is made for it.
C9_NoUsableAudioNoProviderCall ==
    (inlinePc # "idle" /\ NoUsableAudio) =>
        (~providerCalled /\ inFlight = 0 /\ resp # "200")

(***************************************************************************)
(* Claims about the rotation and the credential store                      *)
(***************************************************************************)

\* The pool credentials flagged quota-exhausted in the store.
Flagged(p) == {k \in DOMAIN p : p[k].flash_quota_exhausted}

\* The background task has run the rotation and has ended.
RotationEnded == workerPc = "done" /\ providerCalled

\* C11 (Scenario A): the provider answers 429 "quota" for the first two pairs
\* tried with pool credentials and 200 with valid JSON for the third; then
\* the job ends completed, three credentials were tried of which the first
\* two are flagged quota-exhausted in the store, and the error counter of the
\* third one is 0.
C11_ScenarioA ==
    (provider = "quotaQuotaOk" /\ RotationEnded /\ UserKeyId \notin attempted) =>
        /\ status = "completed"
        /\ Cardinality(attempted) = 3
        /\ Cardinality(Flagged(pool)) = 2
        /\ \A k \in attempted \ Flagged(pool) : pool[k].error_count = 0

\* An error text derived from the failure of every model and key.
TransientDerived(e) == e \in {"All models failed", "Evaluation failed after all retries"}

\* C12 (Scenario B): every pair answers 503 on every attempt; then the job
\* ends failed with an error text derived from the transient failure, and no
\* credential is flagged quota-exhausted.
C12_ScenarioB ==
    (provider = "all503" /\ RotationEnded) =>
        /\ status = "failed"
        /\ TransientDerived(last_error)
        /\ Flagged(pool) = {}

\* The credentials of the inline pipeline's run: the pool keys loaded for the
\* request, and the user's key when the run started with it.
InlineCredentials ==
    {activePoolKeys[i] : i \in 1 .. Len(activePoolKeys)}
        \cup (IF UserKeyId \in attempted THEN {UserKeyId} ELSE {})

\* The inline pipeline's run ended without an evaluation.
InlineFailure == inlinePc = "done" /\ providerCalled /\ evaluationRaw = "null"

\* C13: a run that ends without Success has attempted every credential of
\* its queue; none is left untried because an earlier one failed.
C13_FailureOnlyAfterAllCredentials ==
    InlineFailure => InlineCredentials \subseteq attempted

(***************************************************************************)
(* Claims about the shared credential store                                *)
(***************************************************************************)

\* The credential of the provider call in flight.
CurrentCredential == IF pipeline = "async" THEN keyQueue[ki] ELSE poolKeyId

\* A step that receives the outcome of a provider call.
OutcomeStep == inFlight' = inFlight - 1

\* C14: whatever the outcome of a call made with the user's own credential
\* (success, quota, invalid key, transient, timeout), in any of the three
\* pipelines, the step that handles it leaves the shared credential store as
\* it was.
C14_UserCallLeavesStore ==
    [][(OutcomeStep /\ inFlight > 0 /\ CurrentCredential = UserKeyId) => pool' = pool]_vars

\* A call with the user's key of the full pipeline ended on a quota error and
\* the run now falls back to the pool.
C14_Witness ==
    /\ pipeline = "full"
    /\ attempted = {UserKeyId}
    /\ inlinePc = "rotate"
    /\ callResult.shouldFallbackToPool
    /\ lastError.isQuota

\* C15: a pool credential flagged quota-exhausted is excluded from selection:
\* no provider call is in flight with a pool credential whose exhaustion flag
\* is set (queues are built from the unflagged keys, so such a call would be
\* a later call of the run that flagged it).
C15_ExhaustedNotUsed ==
    (inFlight > 0 /\ CurrentCredential # UserKeyId)
        => ~pool[CurrentCredential].flash_quota_exhausted

C17_FlagSurvivesConcurrentWrites ==
    /\ \A keyId \in flagWritten : pool[keyId].flash_quota_exhausted
    /\ \A keyId \in deactivated : ~pool[keyId].is_active

\* After the exhaustion flag of a credential was written, one request has
\* recorded a failure of it while another still holds the counter it read
\* before: the pending write loses one increment, and the flag is set.
C17_Witness ==
    \E keyId \in flagWritten, w1, w2 \in Writers :
        /\ w1 # w2
        /\ writers[w1].op = "recordFailure" /\ writers[w1].pc = "write"
        /\ writers[w2].op = "recordFailure" /\ writers[w2].pc = "idle"
        /\ writers[w1].key = keyId /\ writers[w2].key = keyId
        /\ writers[w1].read = writers[w2].read
        /\ pool[keyId].error_count = JsOr(writers[w1].read, 0) + 1
        /\ pool[keyId].flash_quota_exhausted

(***************************************************************************)
(* Claims about the normalized result                                      *)
(***************************************************************************)

RubricCriteria == {"fluency_coherence", "lexical_resource", "grammatical_range",
                   "pronunciation"}

\* A result in which each rubric criterion has a score and a feedback value.
Populated(value) ==
    /\ value.t = "object"
    /\ \A c \in RubricCriteria :
        /\ value[c].t = "object"
        /\ ~Nullish(Get(value[c], "score"))
        /\ ~Nullish(Get(value[c], "feedback"))

\* C18: normalize is total: for every parsed JSON object, entries and fields
\* missing, null or of an unexpected type included, it returns without
\* raising a result whose four rubric criteria each have a score and a
\* feedback value.
C18_NormalizeTotal ==
    shaped.by = "full" => (shaped.value # Raised /\ Populated(shaped.value))

\* A result row of the async job whose stored response has a band and a
\* feedback value for each rubric criterion.
PopulatedRow(value) ==
    LET c == value.question_results.criteria IN
    /\ c.t = "object"
    /\ \A name \in RubricCriteria :
        /\ ~Nullish(Get(c, name))
        /\ ~Nullish(Get(Get(c, name), "band"))
        /\ ~Nullish(Get(Get(c, name), "feedback"))

\* C19: every result a pipeline persists or returns has a score and feedback
\* for every rubric criterion, defaulted when the provider omitted it.
C19_NoPartialResult ==
    /\ (shaped.by \in {"full", "part"} /\ shaped.value # Raised) => Populated(shaped.value)
    /\ shaped.by = "async" => PopulatedRow(shaped.value)

\* The number of answers the provider reports as minimal, and as answered.
MinimalCount == Coalesce(raw.minimalResponseCount, Num(0)).v

AnsweredCount ==
    Coalesce(raw.totalQuestionCount, Num(Len(ensureArray(raw.questionScores)))).v

\* C20: with more than 50% of the answered questions minimal the normalized
\* overall score is at most 4.0, with more than 30% at most 5.0, whatever
\* the raw overall score and whichever other fields the response has.
C20_MinimalResponseCap ==
    (shaped.by = "full" /\ shaped.value # Raised /\ AnsweredCount > 0)
        => /\ 2 * MinimalCount > AnsweredCount => shaped.value.overall_band.v <= 8
           /\ 10 * MinimalCount > 3 * AnsweredCount => shaped.value.overall_band.v <= 10

(***************************************************************************)
(* Claims about the parser                                                 *)
(***************************************************************************)

\* C21: parse round-trips: from the serialization of a canonical result,
\* wrapped in a markdown fence and with trailing commas injected before
\* closing braces and brackets, every copy of the parser recovers an object
\* equal to the original.
C21_ParseRoundTrips ==
    (parsed.by \in {"full", "async", "part"} /\ FencedWithTrailingCommas)
        => parsed.value = canonical

\* C22: the transcript repair pass never regresses.  A segment whose
\* transcript before the pass holds text other than the no-speech sentinel
\* (whitespace and letter case aside) has the same transcript after it; an
\* entry that changed holds a non-empty transcript; and while no repair call
\* has returned a transcripts object, or when every one of them has failed,
\* the whole map is as it was.
C22_RepairNeverRegresses ==
    /\ \A k \in Segments :
          TrimLower(transcriptsBefore[k]) \notin {"", "no speech detected"}
              => transcriptsMap[k] = transcriptsBefore[k]
    /\ \A k \in Segments :
          transcriptsMap[k] # transcriptsBefore[k] => Trim(transcriptsMap[k]) # ""
    /\ repairPc \in {"select", "nothing", "call", "await", "exhausted", "stored"}
          => transcriptsMap = transcriptsBefore

\* A pass that repaired a silent-looking segment next to a segment that
\* already had its transcript.
C22_Witness ==
    /\ repairPc = "repaired"
    /\ \E k, j \in Segments :
          /\ transcriptsBefore[k] = "hello" /\ transcriptsMap[k] = "hello"
          /\ transcriptsBefore[j] = NoSpeech /\ transcriptsMap[j] = "repaired"

\* The clips of Scenario C: the sentinel for a transcript, usable audio and
\* 2.1 seconds of duration.
ScenarioC(k) ==
    /\ transcriptsBefore[k] = NoSpeech
    /\ ~(clips[k] < MinBase64Len)
    /\ durations[k] = 21

\* C23: Scenario C.  In every pipeline, once the evaluation has its
\* transcripts, a segment with the sentinel for a transcript, usable audio
\* and 2.1 seconds of duration is sent to the repair pass, so that a repair
\* response can replace the sentinel in the stored result.
C23_ScenarioC ==
    \A k \in Segments :
        (ScenarioC(k) /\ repairPc # "select")
            => \E i \in 1 .. Len(limitedKeys) : limitedKeys[i] = k

\* C24: the status, the retry counter, the last error and the result
\* reference of a job row change only in a step of the job lifecycle manager
\* (serve or the background task); an update the owner makes through the
\* row-level update policy changes none of them.
C24_OnlyLifecycleManagerMutates ==
    [][<<status, retry_count, last_error, result_id>>'
           # <<status, retry_count, last_error, result_id>>
         => (serveVars' # serveVars \/ workerVars' # workerVars)]_vars

\* C25: within one evaluation the rotation is strictly sequential.  At most
\* one provider call is in flight; a call starts only when no call is in
\* flight; and the credential store is written only in the step that receives
\* the outcome of the call in flight, so that the side effects of an outcome
\* are in the store before the next call starts.
C25_RotationSequential ==
    /\ [](inFlight \in {0, 1})
    /\ [][inFlight' > inFlight => inFlight = 0]_vars
    /\ [][pool' # pool => (OutcomeStep /\ inFlight = 1)]_vars

\* A second call of the asynchronous job is in flight with a pool key that
\* the outcome of an earlier call has flagged.
C25_Witness ==
    /\ pipeline = "async"
    /\ workerPc = "await"
    /\ inFlight = 1
    /\ mi > 1
    /\ keyQueue[ki] # UserKeyId
    /\ pool[keyQueue[ki]].flash_quota_exhausted

\* Rate-limit or generic resource-exhaustion phrasing in a body, whatever its
\* letter case.
RateLimitLanguage(body) ==
    \/ Includes(ToLower(body), "too many requests")
    \/ Includes(ToLower(body), "rate limit")
    \/ Includes(ToLower(body), "resource_exhausted")

\* C26: a 429 response whose body has rate-limit or generic
\* resource-exhaustion phrasing and no quota/billing language is classified
\* RateLimit and not Quota by each copy of classifyGeminiError.
C26_RateLimitNotQuota ==
    (cOut # NoOut /\ cStatus = 429 /\ RateLimitLanguage(cBody) /\ ~QuotaLanguage(cBody)) =>
        /\ cOut.async.isRateLimit /\ ~cOut.async.isQuota
        /\ cOut.full.isRateLimit /\ ~cOut.full.isQuota
        /\ cOut.part.isRateLimit /\ ~cOut.part.isQuota

\* A step that receives a 404 response.
NotFoundStep == provider = "all404" /\ OutcomeStep /\ workerPc' # "killed"

\* C27: a 404 response, whatever its body, is NotFound: the step that
\* receives it writes nothing to the credential store (no key is flagged or
\* deactivated), starts no retry of the same pair and, unless the model was
\* the last one, goes on to the next model with the same credential.
C27_NotFoundNextModel ==
    [][NotFoundStep =>
        /\ pool' = pool
        /\ pipeline = "async" =>
              /\ attempt' = 0
              /\ mi < NumModels => (mi' = mi + 1 /\ ki' = ki /\ workerPc' = "call")
        /\ pipeline \in {"full", "part"} =>
              (modelIndex < NumInlineModels =>
                  (modelIndex' = modelIndex + 1 /\ poolKeyId' = poolKeyId
                   /\ inlinePc' = "call"))]_vars

\* A step that receives a response the provider script prescribes.
ScriptedStep == provider # "any" /\ OutcomeStep /\ workerPc' # "killed"

\* C28: the same (credential, model) pair is tried again, after a backoff,
\* only after a transient failure (503, 504, timeout): the step that receives
\* a quota, invalid-credential or not-found response starts no further
\* attempt of the pair.
C28_RetryOnlyTransient ==
    [][ScriptedStep => ~(attempt' > attempt)]_vars

\* C29: when a call with a pool credential fails with a quota error, the
\* exhaustion flag of that credential is in the store before the next
\* provider call is issued.
C29_FlagBeforeNextCall ==
    [][(provider = "allQuota" /\ inFlight' > inFlight) =>
         \A keyId \in attempted \ {UserKeyId} : pool[keyId].flash_quota_exhausted]_vars

\* C30: when a call with a pool credential fails with an invalid-credential
\* error (400 with a key term), the step that receives the response
\* deactivates the credential, in each of the three pipelines.
C30_InvalidKeyDeactivated ==
    [][(provider = "allInvalidKey" /\ OutcomeStep /\ workerPc' # "killed"
        /\ CurrentCredential # UserKeyId)
         => ~pool'[CurrentCredential].is_active]_vars

\* C31: when every call fails with a quota error, or every call fails with
\* an invalid-credential error, a run of the full or the part pipeline that
\* started with the user's own key and ends without an evaluation, while the
\* pool holds a selectable key, has attempted at least one pool key.
C31_UserKeyFailurePromotes ==
    (/\ provider \in {"allQuota", "allInvalidKey"}
     /\ pipeline \in {"full", "part"}
     /\ InlineFailure
     /\ UserKeyId \in attempted
     /\ ActiveGeminiKeysForModel(pool) # {})
        => attempted \cap PoolKeys # {}

\* The position of a provider call of the asynchronous job in the order of
\* (key, model, attempt), counted from 1.
CallRank(k, m, a) == ((k - 1) * NumModels + (m - 1)) * (1 + MaxRetriesPerCall) + a + 1

\* The position of the key of a callGemini / tryGeminiWithKey invocation in
\* the run of an inline pipeline: the first key, the fallback key, then the
\* rotation.
InlineKeyNo(ph, r) ==
    IF ph = "first" THEN 1
    ELSE IF ph = "fallback" THEN 2
    ELSE IF pipeline = "full"
    THEN (IF UserKeyId \in attempted THEN 2 ELSE 1) + r
    ELSE (IF userKeyFailed THEN 1 ELSE 0) + r + 1

\* The position of a provider call of an inline pipeline, counted from 1.
InlineCallRank(ph, r, m) == (InlineKeyNo(ph, r) - 1) * NumInlineModels + m

\* The number of credentials of the run of an inline pipeline.
InlineQueueLen == Len(activePoolKeys) + (IF UserKeyId \in attempted THEN 1 ELSE 0)

\* C32: the rotation terminates.  Every provider call has a position in the
\* order of (credential, model, attempt) that is at most |queue| x |models| x
\* (1 + retry limit); between one call and the next the position strictly
\* increases, whatever the provider answered; and once an evaluation has been
\* parsed no further evaluation call is issued.
C32_RotationTerminates ==
    /\ []((pipeline = "async" /\ workerPc = "await") =>
            CallRank(ki, mi, attempt)
                <= Len(keyQueue) * NumModels * (1 + MaxRetriesPerCall))
    /\ [][(pipeline = "async" /\ workerPc = "await" /\ workerPc' = "call") =>
            CallRank(ki', mi', attempt') > CallRank(ki, mi, attempt)]_vars
    /\ []((pipeline \in {"full", "part"} /\ inlinePc = "await") =>
            InlineCallRank(phase, rot, modelIndex) <= InlineQueueLen * NumInlineModels)
    /\ [][(pipeline \in {"full", "part"} /\ inlinePc \in {"await", "rotate"}
           /\ inlinePc' = "call") =>
            InlineCallRank(phase', rot', modelIndex') > InlineCallRank(phase, rot, modelIndex)]_vars
    /\ [][(result # "null" \/ evaluationRaw # "null") => ~(inFlight' > inFlight)]_vars

\* The last attempt of the last model with the last of two keys is in flight.
C32_Witness ==
    /\ pipeline = "async"
    /\ workerPc = "await"
    /\ Len(keyQueue) > 1
    /\ ki = Len(keyQueue)
    /\ mi = NumModels
    /\ attempt = MaxRetriesPerCall

\* C33: every provider call is wrapped in a hard timeout: a call in flight
\* eventually yields an outcome, even if the provider never answers.
C33_EveryCallYields ==
    (inFlight = 1) ~> (inFlight = 0)

C35_UserKeyFirst ==
    /\ (userKey = "ok" /\ attempted # {}) => UserKeyId \in attempted
    /\ (userKey = "ok" /\ pipeline = "async" /\ keyQueue # <<>>) => keyQueue[1] = UserKeyId

\* C36: after a failed read of the user's secret or of the pool keys during
\* the construction of the queue, the run makes no provider call.
C36_ReadErrorStopsRun ==
    readFailed => (attempted = {} /\ inFlight = 0 /\ ~providerCalled)

(***************************************************************************)
(* Claims about the overall band                                           *)
(***************************************************************************)

\* The overall band the provider reported, in half bands.
ProviderOverall == Coalesce(Coalesce(raw.overallBand, raw.overall_band), Num(0)).v

\* The question scores of the response and their sum, in half bands.
ScoresPresent == Len(ensureArray(raw.questionScores)) > 0

ScoresSum == SumScores(ensureArray(raw.questionScores))

\* C37: whenever question scores are present, the normalized overall band is
\* at most the mean of the question scores plus 1.5 bands (3 half bands),
\* for every reported overall band and every combination with the caps for
\* minimal responses.
C37_OverallWithinMargin ==
    (shaped.by = "full" /\ shaped.value # Raised /\ ScoresPresent)
        => shaped.value.overall_band.v * Len(ensureArray(raw.questionScores))
               <= ScoresSum + 3 * Len(ensureArray(raw.questionScores))

\* Without a minimal response, a reported overall band more than 1.5 bands
\* above the mean of the question scores has been reduced.
C37_Witness ==
    /\ shaped.by = "full"
    /\ shaped.value # Raised
    /\ ScoresPresent
    /\ MinimalCount = 0
    /\ ProviderOverall * Len(ensureArray(raw.questionScores))
           > ScoresSum + 3 * Len(ensureArray(raw.questionScores))
    /\ shaped.value.overall_band.v < ProviderOverall

\* C40: normalize never raises the overall band: for every input the
\* normalized overall band is at most the band the provider reported.
C40_NeverRaised ==
    (shaped.by = "full" /\ shaped.value # Raised)
        => shaped.value.overall_band.v <= ProviderOverall

\* A response with question scores, more than half of the answers minimal
\* and a reported band below the cap of 4.0 has been normalized.
C40_Witness ==
    /\ shaped.by = "full"
    /\ shaped.value # Raised
    /\ ScoresPresent
    /\ AnsweredCount > 0
    /\ 2 * MinimalCount > AnsweredCount
    /\ ProviderOverall < 8
    /\ shaped.value.overall_band.v = ProviderOverall

(***************************************************************************)
(* The client's status hook: useSpeakingEvaluationRealtime                 *)
(***************************************************************************)

\* The hook of src/hooks, with a check on mount, and the hook with fallback
\* polling.
HookKinds == {"realtimeOnly", "polling"}

\* The row of the job as a select or a change event carries it.
Row == [status |-> status, result_id |-> result_id, last_error |-> last_error]

\* The variables of the edge functions, which the hook does not touch.
functionVars == <<readVars, repairVars, parseVars, shapeVars, writerVars, classifyVars,
                  partVars, runVars, inlineVars, storeVars, serveVars, workerVars,
                  terminalWrites>>

\* The event filter of the subscription: 'UPDATE' in the hook of src/hooks,
\* '*' in the hook with polling.
Subscribed(eventType) == hookKind = "polling" \/ eventType = "UPDATE"

\* The change event of a write to the job row, on its way to a subscriber.
Emitted(eventType, payload) ==
    IF Subscribed(eventType) THEN Append(events, payload) ELSE events

\* serve of evaluate-speaking-async inserts the job row with status 'pending'.
RowInsert ==
    /\ hookKind \in HookKinds
    /\ status = "none"
    /\ status' = "pending"
    /\ retry_count' = DefaultRetryCount
    /\ max_retries' = DefaultMaxRetries
    /\ events' = Emitted("INSERT", [Row EXCEPT !.status = "pending"])
    /\ UNCHANGED <<functionVars, last_error, result_id, resultRows, hookKind, jobStatus,
                   hasCompletedRef, onCompleteCalls, onFailedCalls, pollPc, polled>>

\* runEvaluation marks the job as processing.
RowProcessing ==
    /\ hookKind \in HookKinds
    /\ status = "pending"
    /\ status' = "processing"
    /\ events' = Emitted("UPDATE", [Row EXCEPT !.status = "processing"])
    /\ UNCHANGED <<functionVars, retry_count, max_retries, last_error, result_id, resultRows,
                   hookKind, jobStatus, hasCompletedRef, onCompleteCalls, onFailedCalls,
                   pollPc, polled>>

\* runEvaluation resets the job to 'pending' for another run.
RowRetry ==
    /\ hookKind \in HookKinds
    /\ status = "processing"
    /\ ShouldRetryJob(NewRetryCount(retry_count), max_retries)
    /\ status' = "pending"
    /\ retry_count' = NewRetryCount(retry_count)
    /\ last_error' = "All models failed"
    /\ events' = Emitted("UPDATE", [Row EXCEPT !.status = "pending",
                                               !.last_error = "All models failed"])
    /\ UNCHANGED <<functionVars, max_retries, result_id, resultRows, hookKind, jobStatus,
                   hasCompletedRef, onCompleteCalls, onFailedCalls, pollPc, polled>>

\* runEvaluation marks the job as completed, with the id of the result.
RowCompleted ==
    /\ hookKind \in HookKinds
    /\ status = "processing"
    /\ status' = "completed"
    /\ result_id' = "r1"
    /\ events' = Emitted("UPDATE", [Row EXCEPT !.status = "completed", !.result_id = "r1"])
    /\ UNCHANGED <<functionVars, retry_count, max_retries, last_error, resultRows,
                   hookKind, jobStatus, hasCompletedRef, onCompleteCalls, onFailedCalls,
                   pollPc, polled>>

\* The catch block of processInBackground marks the job as failed.
RowFailed ==
    /\ hookKind \in HookKinds
    /\ status = "processing"
    /\ status' = "failed"
    /\ last_error' = "Evaluation failed after all retries"
    /\ events' = Emitted("UPDATE", [Row EXCEPT !.status = "failed",
                                    !.last_error = "Evaluation failed after all retries"])
    /\ UNCHANGED <<functionVars, retry_count, max_retries, result_id, resultRows,
                   hookKind, jobStatus, hasCompletedRef, onCompleteCalls, onFailedCalls,
                   pollPc, polled>>

\* handleJobUpdate of the hook with polling, lines 68-103: onComplete for the
\* first completed row with a result id, onFailed for every failed row.
handleJobUpdate(update) ==
    /\ jobStatus' = update.status
    /\ IF update.status = "completed" /\ update.result_id # "null" /\ ~hasCompletedRef
       THEN /\ hasCompletedRef' = TRUE
            /\ onCompleteCalls' = onCompleteCalls + 1
            /\ UNCHANGED onFailedCalls
       ELSE IF update.status = "failed"
       THEN /\ onFailedCalls' = onFailedCalls + 1
            /\ UNCHANGED <<hasCompletedRef, onCompleteCalls>>
       ELSE UNCHANGED <<hasCompletedRef, onCompleteCalls, onFailedCalls>>

\* handleJobUpdate of the hook of src/hooks, lines 37-67: onComplete for every
\* completed row with a result id, onFailed for every failed row.
handleJobUpdate_realtimeOnly(update) ==
    /\ jobStatus' = update.status
    /\ onCompleteCalls' = IF update.status = "completed" /\ update.result_id # "null"
                          THEN onCompleteCalls + 1 ELSE onCompleteCalls
    /\ onFailedCalls' = IF update.status = "failed"
                        THEN onFailedCalls + 1 ELSE onFailedCalls
    /\ UNCHANGED hasCompletedRef

\* The callback of the realtime subscription: a change event reaches the hook.
RealtimeDeliver ==
    /\ events # <<>>
    /\ events' = Tail(events)
    /\ IF hookKind = "polling"
       THEN handleJobUpdate(Head(events))
       ELSE handleJobUpdate_realtimeOnly(Head(events))
    /\ UNCHANGED <<functionVars, jobVars, hookKind, pollPc, polled>>

\* A change event never reaches the hook.
RealtimeLose ==
    /\ \E i \in 1 .. Len(events) :
        events' = SubSeq(events, 1, i - 1) \o SubSeq(events, i + 1, Len(events))
    /\ UNCHANGED <<functionVars, jobVars, hookKind, jobStatus, hasCompletedRef,
                   onCompleteCalls, onFailedCalls, pollPc, polled>>

\* The select of the latest job of the test, of pollJobStatus (lines 144-153)
\* and of checkExistingJob (src/hooks, lines 104-115): it returns the row as
\* it is now, or it raises.
QueryLatestJob(ok) ==
    /\ pollPc = "query"
    /\ IF ok
       THEN /\ polled' = IF status = "none" THEN NoJob ELSE Row
            /\ pollPc' = "handle"
       ELSE \* pollJobStatus catches and sets the timer; checkExistingJob rejects
            /\ polled' = NoJob
            /\ pollPc' = IF hookKind = "polling" THEN "timer" ELSE "stopped"
    /\ UNCHANGED <<functionVars, jobVars, hookKind, jobStatus, hasCompletedRef,
                   onCompleteCalls, onFailedCalls, events>>

\* pollJobStatus, lines 155-163: a row is handed to handleJobUpdate and the
\* timer is set when its status is not terminal; without a row nothing is done.
PollHandle ==
    /\ hookKind = "polling"
    /\ pollPc = "handle"
    /\ IF polled # NoJob
       THEN /\ handleJobUpdate(polled)
            /\ pollPc' = IF polled.status \notin {"completed", "failed"}
                         THEN "timer" ELSE "stopped"
       ELSE /\ pollPc' = "stopped"
            /\ UNCHANGED <<jobStatus, hasCompletedRef, onCompleteCalls, onFailedCalls>>
    /\ polled' = NoJob
    /\ UNCHANGED <<functionVars, jobVars, hookKind, events>>

\* pollJobStatus, line 141, as the timer calls it.
PollTimer ==
    /\ hookKind = "polling"
    /\ pollPc = "timer"
    /\ pollPc' = IF hasCompletedRef THEN "stopped" ELSE "query"
    /\ UNCHANGED <<functionVars, jobVars, hookKind, jobStatus, hasCompletedRef,
                   onCompleteCalls, onFailedCalls, events, polled>>

\* checkExistingJob of the hook of src/hooks, lines 117-126.
CheckExistingJobHandle ==
    /\ hookKind = "realtimeOnly"
    /\ pollPc = "handle"
    /\ IF polled # NoJob
       THEN /\ jobStatus' = polled.status
            /\ onCompleteCalls' = IF polled.status = "completed" /\ polled.result_id # "null"
                                  THEN onCompleteCalls + 1 ELSE onCompleteCalls
       ELSE UNCHANGED <<jobStatus, onCompleteCalls>>
    /\ pollPc' = "stopped"
    /\ polled' = NoJob
    /\ UNCHANGED <<functionVars, jobVars, hookKind, hasCompletedRef, onFailedCalls, events>>

\* The hook is mounted before or while the job runs: the effects have
\* subscribed, reset hasCompletedRef and started the first select.
InitHook ==
    /\ InitClassifyIdle
    /\ InitStoreIdle
    /\ InitServerIdle
    /\ InitRepairIdle
    /\ raw = EmptyObject /\ shaped = NotShaped
    /\ canonical = <<>> /\ responseText = <<>> /\ parsed = NotParsed
    /\ InitInlineIdle
    /\ req = "ok"
    /\ provider = "any"
    /\ pipeline = "none"
    /\ hookKind \in HookKinds
    /\ jobStatus = "null"
    /\ hasCompletedRef = FALSE
    /\ onCompleteCalls = 0
    /\ onFailedCalls = 0
    /\ events = <<>>
    /\ pollPc = "query"
    /\ polled = NoJob

RowWrite == RowInsert \/ RowProcessing \/ RowRetry \/ RowCompleted \/ RowFailed

HookStep ==
    \/ RealtimeDeliver
    \/ \E ok \in BOOLEAN : QueryLatestJob(ok)
    \/ PollHandle
    \/ PollTimer
    \/ CheckExistingJobHandle

NextHook == RowWrite \/ RealtimeLose \/ HookStep

SpecHook == InitHook /\ [][NextHook]_vars

\* The steps of the hook are taken when they can be, and the select of the
\* poll does not raise forever.
FairHook == SpecHook /\ WF_vars(HookStep) /\ SF_vars(QueryLatestJob(TRUE))

(***************************************************************************)
(* Claims about the status hook                                            *)
(***************************************************************************)

\* C38: for one job the completion callback and the failure callback of the
\* status hook are each invoked at most once, under every interleaving of
\* realtime change events, fallback polls and the check on mount.
C38_CallbacksAtMostOnce ==
    /\ onCompleteCalls <= 1
    /\ onFailedCalls <= 1

\* C39: in the hook with fallback polling, once the job is completed or
\* failed the hook eventually reports that status, also when every realtime
\* event is lost and the first poll ran before the job row existed.
C39_TerminalEventuallyReported ==
    (hookKind = "polling" /\ status \in {"completed", "failed"}) ~> (jobStatus = status)

====
